---- MODULE Spec2Model ----
(***************************************************************************)
(* SquiggleSync backend: the room state pipeline (validator, conflict      *)
(* resolver, sequence allocator, event log), the WebSocket membership      *)
(* table and fan-out, and the HTTP entry points.                           *)
(*                                                                         *)
(* Node.js runs every handler to completion on one thread, so each action  *)
(* below is one whole handler.                                             *)
(***************************************************************************)
EXTENDS Integers, Sequences, FiniteSets, TLC

(***************************************************************************)
(* Bounds of the model.                                                    *)
(***************************************************************************)
\* events stored by the WebSocket server's RoomStateService
MaxWsEvents == 2
\* events stored by the events router's RoomStateService
MaxHttpEvents == 3
\* steps of the server clock, of one cooldown each
MaxTicks == 1
\* frames that may wait in the inbox of one client
MaxInbox == 2
\* browser sockets one WebSocketService may create
MaxSockets == 6
\* points of one stroke on the page
MaxPoints == 3

(***************************************************************************)
(* Program constants.                                                      *)
(***************************************************************************)
CLEAR_COOLDOWN_MS == 1000
MAX_EVENTS_PER_ROOM == 10000

Rooms == {"r1", "r2"}
\* the sockets that connect over the run; the session id of socket s is s
Sockets == {1, 2}
\* one RoomStateService is constructed by setupWebSocket, one by the events
\* router and one by the rooms router (the test router of /room-state holds a
\* fourth, which only its own test endpoints reach and which is left out)
Instances == {"ws", "events", "rooms"}

(***************************************************************************)
(* JavaScript values of the event payload.                                 *)
(***************************************************************************)
Num(n) == [k |-> "number", n |-> n]
NaN == [k |-> "NaN", n |-> 0]
Infinity == [k |-> "Infinity", n |-> 0]
Undefined == [k |-> "undefined", n |-> 0]

typeofNumber(v) == v.k \in {"number", "NaN", "Infinity"}
isFinite(v) == v.k = "number"

NoArray == [isArray |-> FALSE, items |-> <<>>]
Arr(items) == [isArray |-> TRUE, items |-> items]
Point(x, y) == Arr(<<Num(x), Num(y)>>)
NoRegion == [isObject |-> FALSE, x |-> Undefined, y |-> Undefined,
             width |-> Undefined, height |-> Undefined]
Region(x, y, w, h) == [isObject |-> TRUE, x |-> Num(x), y |-> Num(y),
                       width |-> Num(w), height |-> Num(h)]

\* an event with the header only; "" is a missing or empty string, timestamp 0
\* a missing one, sequence 0 an absent one
BaseEvent(type, userId, roomId, timestamp) ==
    [type |-> type, userId |-> userId, roomId |-> roomId,
     timestamp |-> timestamp, sequence |-> 0,
     points |-> NoArray, path |-> NoArray, color |-> <<>>,
     strokeWidth |-> Undefined, region |-> NoRegion]

Red == <<"#", "F", "F", "0", "0", "0", "0">>
Blue == <<"#", "0", "0", "0", "0", "F", "F">>
ColorName == <<"r", "e", "d">>

DrawLine(userId, roomId, timestamp, color) ==
    [BaseEvent("DRAW_LINE", userId, roomId, timestamp) EXCEPT
        !.points = Arr(<<Point(0, 0), Point(1, 1)>>),
        !.color = color, !.strokeWidth = Num(2)]
DrawPath(userId, roomId, timestamp) ==
    [BaseEvent("DRAW_PATH", userId, roomId, timestamp) EXCEPT
        !.path = Arr(<<Point(2, 2), Point(3, 3)>>),
        !.color = Red, !.strokeWidth = Num(2)]
Erase(userId, roomId, timestamp, w) ==
    [BaseEvent("ERASE", userId, roomId, timestamp) EXCEPT
        !.region = Region(0, 0, w, 5)]

(***************************************************************************)
(* Event validator (utils/validation.util.ts).                             *)
(***************************************************************************)
HexDigits ==
    {"0", "1", "2", "3", "4", "5", "6", "7", "8", "9",
     "A", "B", "C", "D", "E", "F", "a", "b", "c", "d", "e", "f"}

validateBaseEvent(event) ==
    /\ event.type # ""
    /\ event.userId # ""
    /\ event.roomId # ""
    /\ event.timestamp # 0

validPoints(arr) ==
    /\ arr.isArray
    /\ Len(arr.items) >= 2
    /\ \A i \in 1..Len(arr.items) :
         LET point == arr.items[i] IN
         /\ point.isArray /\ Len(point.items) = 2
         /\ typeofNumber(point.items[1]) /\ typeofNumber(point.items[2])
         /\ isFinite(point.items[1]) /\ isFinite(point.items[2])

validColor(color) ==
    /\ color # <<>>
    /\ Len(color) = 7
    /\ color[1] = "#"
    /\ \A i \in 2..7 : color[i] \in HexDigits

validStrokeWidth(w) ==
    /\ typeofNumber(w)
    /\ ~ ((w.k = "number" /\ w.n <= 0) \/ (w.k = "number" /\ w.n > 100)
          \/ w.k = "Infinity")

validateDrawLineEvent(event) ==
    /\ validateBaseEvent(event)
    /\ event.type = "DRAW_LINE"
    /\ validPoints(event.points)
    /\ validColor(event.color)
    /\ validStrokeWidth(event.strokeWidth)

validateDrawPathEvent(event) ==
    /\ validateBaseEvent(event)
    /\ event.type = "DRAW_PATH"
    /\ validPoints(event.path)
    /\ validColor(event.color)
    /\ validStrokeWidth(event.strokeWidth)

validateEraseEvent(event) ==
    /\ validateBaseEvent(event)
    /\ event.type = "ERASE"
    /\ event.region.isObject
    /\ \A f \in {"x", "y", "width", "height"} :
         typeofNumber(event.region[f]) /\ isFinite(event.region[f])
    /\ ~ (event.region.width.n <= 0 \/ event.region.height.n <= 0)

validateClearCanvasEvent(event) ==
    /\ validateBaseEvent(event)
    /\ event.type = "CLEAR_CANVAS"

validateEvent(event) ==
    /\ event.type # ""
    /\ CASE event.type = "DRAW_LINE" -> validateDrawLineEvent(event)
         [] event.type = "DRAW_PATH" -> validateDrawPathEvent(event)
         [] event.type = "ERASE" -> validateEraseEvent(event)
         [] event.type = "CLEAR_CANVAS" -> validateClearCanvasEvent(event)
         [] event.type \in {"JOIN_ROOM", "LEAVE_ROOM"} -> validateBaseEvent(event)
         [] OTHER -> FALSE

\* a stub in the source: a shallow copy
sanitizeEvent(event) == event

(***************************************************************************)
(* Conflict resolver (services/conflict-resolver.service.ts).              *)
(***************************************************************************)
isDrawingEvent(event) == event.type \in {"DRAW_LINE", "DRAW_PATH", "ERASE"}

isControlEvent(event) == event.type \in {"JOIN_ROOM", "LEAVE_ROOM"}

Accept(event) == [accepted |-> TRUE, event |-> event]
Reject(event) == [accepted |-> FALSE, event |-> event]

\* the sort turned round: the oldest clear first
mostRecentClearOldest(existingEvents) ==
    LET recentClears == SelectSeq(existingEvents, LAMBDA e : e.type = "CLEAR_CANVAS")
        idx == CHOOSE i \in 1..Len(recentClears) :
                 \A j \in 1..Len(recentClears) :
                    recentClears[i].timestamp <= recentClears[j].timestamp
    IN  recentClears[idx]

\* recentClears[0] after the sort by timestamp, most recent first
mostRecentClear(existingEvents) ==
    LET recentClears == SelectSeq(existingEvents, LAMBDA e : e.type = "CLEAR_CANVAS")
        idx == CHOOSE i \in 1..Len(recentClears) :
                 \A j \in 1..Len(recentClears) :
                    recentClears[i].timestamp >= recentClears[j].timestamp
    IN  recentClears[idx]

\* a resolver that measures the distance to the most recent clear, not the
\* time since it
handleClearCanvasConflictEitherWay(existingEvents, newEvent) ==
    LET recentClears == SelectSeq(existingEvents, LAMBDA e : e.type = "CLEAR_CANVAS")
    IN  IF Len(recentClears) = 0 THEN Accept(newEvent)
        ELSE LET timeSinceLastClear ==
                     newEvent.timestamp - mostRecentClear(existingEvents).timestamp
             IN  IF timeSinceLastClear < CLEAR_COOLDOWN_MS
                    /\ - timeSinceLastClear < CLEAR_COOLDOWN_MS
                 THEN Reject(newEvent)
                 ELSE Accept(newEvent)

\* a resolver whose cooldown includes its last millisecond
handleClearCanvasConflictInclusive(existingEvents, newEvent) ==
    LET recentClears == SelectSeq(existingEvents, LAMBDA e : e.type = "CLEAR_CANVAS")
    IN  IF Len(recentClears) = 0 THEN Accept(newEvent)
        ELSE LET timeSinceLastClear ==
                     newEvent.timestamp - mostRecentClear(existingEvents).timestamp
             IN  IF timeSinceLastClear <= CLEAR_COOLDOWN_MS THEN Reject(newEvent)
                 ELSE Accept(newEvent)

handleClearCanvasConflict(existingEvents, newEvent) ==
    LET recentClears == SelectSeq(existingEvents, LAMBDA e : e.type = "CLEAR_CANVAS")
    IN  IF Len(recentClears) = 0 THEN Accept(newEvent)
        ELSE LET timeSinceLastClear ==
                     newEvent.timestamp - mostRecentClear(existingEvents).timestamp
             IN  IF timeSinceLastClear < CLEAR_COOLDOWN_MS THEN Reject(newEvent)
                 ELSE Accept(newEvent)

\* a resolver that holds every event to the cooldown of the last clear
resolveConflictCooldownForAll(existingEvents, newEvent) ==
    handleClearCanvasConflict(existingEvents, newEvent)

resolveConflict(existingEvents, newEvent) ==
    IF isDrawingEvent(newEvent) THEN Accept(newEvent)
    ELSE IF newEvent.type = "CLEAR_CANVAS"
         THEN handleClearCanvasConflict(existingEvents, newEvent)
    ELSE IF isControlEvent(newEvent) THEN Accept(newEvent)
    ELSE Accept(newEvent)

(***************************************************************************)
(* Sequence allocator and event log of one RoomStateService.  rs is the    *)
(* record [sequences, events, activeRooms] of one instance.                *)
(***************************************************************************)
NewRoomState ==
    [sequences |-> [r \in Rooms |-> 0],
     events |-> [r \in Rooms |-> <<>>],
     activeRooms |-> {}]

getCurrentSequence(rs, roomId) == rs.sequences[roomId]

getNextSequence(rs, roomId) == rs.sequences[roomId] + 1

getEvents(rs, roomId) == rs.events[roomId]

\* the event is stored with the next sequence of the room
addEvent(rs, roomId, event) ==
    LET seq == getNextSequence(rs, roomId)
        stored == [event EXCEPT !.sequence = seq]
    IN  [rs |-> [rs EXCEPT !.sequences[roomId] = seq,
                           !.events[roomId] = Append(@, stored)],
         accepted |-> TRUE, event |-> stored]

\* a store whose since(seq) includes the event with sequence seq
getStoredEventsFrom(rs, roomId, afterSequence) ==
    SelectSeq(rs.events[roomId], LAMBDA e : e.sequence >= afterSequence)

getStoredEventsAfter(rs, roomId, afterSequence) ==
    SelectSeq(rs.events[roomId], LAMBDA e : e.sequence > afterSequence)

clearRoomEvents(rs, roomId) ==
    [rs EXCEPT !.events[roomId] = <<>>, !.sequences[roomId] = 0]

(***************************************************************************)
(* RoomStateService (services/room-state.service.ts).                      *)
(***************************************************************************)
\* a sequence number is allocated before the resolver is asked
processEventAllocatesFirst(rs, roomId, event) ==
    LET active == [rs EXCEPT !.activeRooms = @ \cup {roomId}]
        resolvedEvent == resolveConflict(getEvents(active, roomId), event)
    IN  IF ~ resolvedEvent.accepted
        THEN [rs |-> [active EXCEPT !.sequences[roomId] = getNextSequence(active, roomId)],
              accepted |-> FALSE, event |-> event]
        ELSE addEvent(active, roomId, resolvedEvent.event)

\* the room is not marked active
processEventForgetsRoom(rs, roomId, event) ==
    LET resolvedEvent == resolveConflict(getEvents(rs, roomId), event)
    IN  IF ~ resolvedEvent.accepted
        THEN [rs |-> rs, accepted |-> FALSE, event |-> event]
        ELSE addEvent(rs, roomId, resolvedEvent.event)

\* an accepted CLEAR_CANVAS empties the log before it is stored
processEventTruncates(rs, roomId, event) ==
    LET active == [rs EXCEPT !.activeRooms = @ \cup {roomId}]
        resolvedEvent == resolveConflict(getEvents(active, roomId), event)
    IN  IF ~ resolvedEvent.accepted
        THEN [rs |-> active, accepted |-> FALSE, event |-> event]
        ELSE IF event.type = "CLEAR_CANVAS"
             THEN addEvent([active EXCEPT !.events[roomId] = <<>>], roomId,
                           resolvedEvent.event)
        ELSE addEvent(active, roomId, resolvedEvent.event)

\* the resolver's verdict is not looked at
processEventIgnoresResolver(rs, roomId, event) ==
    addEvent([rs EXCEPT !.activeRooms = @ \cup {roomId}], roomId, event)

processEvent(rs, roomId, event) ==
    LET active == [rs EXCEPT !.activeRooms = @ \cup {roomId}]
        existingEvents == getEvents(active, roomId)
        resolvedEvent == resolveConflict(existingEvents, event)
    IN  IF ~ resolvedEvent.accepted
        THEN [rs |-> active, accepted |-> FALSE, event |-> event]
        ELSE addEvent(active, roomId, resolvedEvent.event)

\* the snapshot misses the newest event
getStateStale(rs, roomId) ==
    IF roomId \notin rs.activeRooms \/ getEvents(rs, roomId) = <<>> THEN <<>>
    ELSE SubSeq(getEvents(rs, roomId), 1, Len(getEvents(rs, roomId)) - 1)

getState(rs, roomId) ==
    IF roomId \notin rs.activeRooms THEN <<>> ELSE getEvents(rs, roomId)

getEventsAfter(rs, roomId, afterSequence) ==
    getStoredEventsAfter(rs, roomId, afterSequence)

clearRoom(rs, roomId) ==
    [clearRoomEvents(rs, roomId) EXCEPT !.activeRooms = @ \ {roomId}]

getActiveRooms(rs) == rs.activeRooms

roomExists(rs, roomId) == roomId \in rs.activeRooms

(***************************************************************************)
(* Membership table (services/websocket-rooms.service.ts).  ms is the      *)
(* record [rooms, clientRooms]: rooms maps a room id to its set of         *)
(* sockets, clientRooms a socket to its room id.  A Map is a function      *)
(* whose domain is the key set.                                            *)
(***************************************************************************)
MapSet(m, key, value) ==
    [x \in DOMAIN m \cup {key} |-> IF x = key THEN value ELSE m[x]]

MapDelete(m, key) == [x \in DOMAIN m \ {key} |-> m[x]]

NewMembership == [rooms |-> <<>>, clientRooms |-> <<>>]

\* "" stands for undefined
getClientRoom(ms, socket) ==
    IF socket \in DOMAIN ms.clientRooms THEN ms.clientRooms[socket] ELSE ""

getRoomConnections(ms, roomId) ==
    IF roomId \in DOMAIN ms.rooms THEN ms.rooms[roomId] ELSE {}

leaveRoom(ms, roomId, socket) ==
    LET left ==
            IF roomId \in DOMAIN ms.rooms
            THEN LET roomConnections == ms.rooms[roomId] \ {socket}
                 IN  IF Cardinality(roomConnections) = 0
                     THEN MapDelete(ms.rooms, roomId)
                     ELSE MapSet(ms.rooms, roomId, roomConnections)
            ELSE ms.rooms
    IN  [rooms |-> left, clientRooms |-> MapDelete(ms.clientRooms, socket)]

\* the previous room is not left
joinRoomKeepsPrevious(ms, roomId, socket) ==
    LET roomConnections == getRoomConnections(ms, roomId) \cup {socket}
    IN  [rooms |-> MapSet(ms.rooms, roomId, roomConnections),
         clientRooms |-> MapSet(ms.clientRooms, socket, roomId)]

\* the room's set is made anew on every join
joinRoomFreshSet(ms, roomId, socket) ==
    LET previousRoom == getClientRoom(ms, socket)
        out == IF previousRoom # "" THEN leaveRoom(ms, previousRoom, socket) ELSE ms
    IN  [rooms |-> MapSet(out.rooms, roomId, {socket}),
         clientRooms |-> MapSet(out.clientRooms, socket, roomId)]

joinRoom(ms, roomId, socket) ==
    LET previousRoom == getClientRoom(ms, socket)
        out == IF previousRoom # "" THEN leaveRoom(ms, previousRoom, socket) ELSE ms
        roomConnections == getRoomConnections(out, roomId) \cup {socket}
    IN  [rooms |-> MapSet(out.rooms, roomId, roomConnections),
         clientRooms |-> MapSet(out.clientRooms, socket, roomId)]

removeClient(ms, socket) ==
    LET roomId == getClientRoom(ms, socket)
    IN  IF roomId # "" THEN leaveRoom(ms, roomId, socket) ELSE ms

(***************************************************************************)
(* Server messages and sending.  The outbox of a socket is the sequence    *)
(* of frames a handler writes to it, in order.                             *)
(***************************************************************************)
NoEvent == BaseEvent("", "", "", 0)

ServerMessage(type) ==
    [type |-> type, sessionId |-> 0, text |-> "", roomId |-> "",
     userCount |-> 0, state |-> <<>>, stateEventCount |-> 0, event |-> NoEvent]

ConnectedMessage(sessionId) ==
    [ServerMessage("CONNECTED") EXCEPT
        !.sessionId = sessionId, !.text = "Connected to SquiggleSync Server"]

RoomJoinedMessage(roomId, userCount, state) ==
    [ServerMessage("ROOM_JOINED") EXCEPT
        !.roomId = roomId, !.userCount = userCount, !.state = state,
        !.stateEventCount = Len(state)]

EventMessage(event) == [ServerMessage("EVENT") EXCEPT !.event = event]

ErrorMessage(error) == [ServerMessage("ERROR") EXCEPT !.text = error]

\* w is the state the WebSocket handler works on:
\* [rs, ms, sessions, readyState, outbox, submitted]
\* a send that does not look at the socket's readyState
sendMessageAnyState(w, socket, message) ==
    [w EXCEPT !.outbox[socket] = Append(@, message)]

sendMessage(w, socket, message) ==
    IF w.readyState[socket] = "OPEN"
    THEN [w EXCEPT !.outbox[socket] = Append(@, message)]
    ELSE w

sendError(w, socket, error) == sendMessage(w, socket, ErrorMessage(error))

\* the message goes to the open sockets of every room
broadcastToEveryRoom(w, roomId, message, excludeSocket) ==
    [w EXCEPT !.outbox =
        [ws \in DOMAIN @ |->
            IF getClientRoom(w.ms, ws) # "" /\ ws # excludeSocket
               /\ w.readyState[ws] = "OPEN"
            THEN Append(@[ws], message)
            ELSE @[ws]]]

\* excludeSocket 0 stands for undefined
broadcastToRoom(w, roomId, message, excludeSocket) ==
    LET connections == getRoomConnections(w.ms, roomId)
    IN  [w EXCEPT !.outbox =
            [ws \in DOMAIN @ |->
                IF ws \in connections /\ ws # excludeSocket
                   /\ w.readyState[ws] = "OPEN"
                THEN Append(@[ws], message)
                ELSE @[ws]]]

(***************************************************************************)
(* WebSocketHandler (handlers/websocket.handler.ts).                       *)
(***************************************************************************)
NoSubmit == [called |-> FALSE, roomId |-> "", event |-> NoEvent]

\* the sender is excluded from the broadcast
eventExcludeSender(socket) == socket

\* the excludeSocket argument of the broadcast of an accepted event: none
eventExcludeSocket(socket) == 0

\* the event as submitted is broadcast
eventPayloadSubmitted(event, processedEvent) == event

\* the payload of the EVENT frame: the event processEvent returned
eventPayload(event, processedEvent) == processedEvent

\* a socket in no room submits to the room its frame names
handleWhiteboardEventTrustsFrame(w, socket, message, clock) ==
    LET roomId == IF getClientRoom(w.ms, socket) # "" THEN getClientRoom(w.ms, socket)
                  ELSE message.roomId
        candidateEvent == [message EXCEPT !.roomId = roomId, !.timestamp = clock]
        processed == processEvent(w.rs, roomId, candidateEvent)
        stored == [w EXCEPT !.rs = processed.rs,
                            !.submitted = [called |-> TRUE, roomId |-> roomId,
                                           event |-> candidateEvent]]
    IN  IF roomId = "" THEN sendError(w, socket, "Not in a room")
        ELSE IF ~ validateEvent(candidateEvent)
             THEN sendError(w, socket, "Invalid event")
        ELSE IF ~ processed.accepted
             THEN sendError(stored, socket, "Event rejected due to conflict resolution")
        ELSE broadcastToRoom(stored, roomId,
                             EventMessage(eventPayload(candidateEvent, processed.event)),
                             eventExcludeSocket(socket))

\* the event is processed before it is validated
handleWhiteboardEventStoresFirst(w, socket, message, clock) ==
    LET roomId == getClientRoom(w.ms, socket)
        candidateEvent == [message EXCEPT !.roomId = roomId, !.timestamp = clock]
        processed == processEvent(w.rs, roomId, candidateEvent)
        stored == [w EXCEPT !.rs = processed.rs,
                            !.submitted = [called |-> TRUE, roomId |-> roomId,
                                           event |-> candidateEvent]]
    IN  IF roomId = "" THEN sendError(w, socket, "Not in a room")
        ELSE IF ~ validateEvent(candidateEvent)
             THEN sendError(stored, socket, "Invalid event")
        ELSE IF ~ processed.accepted
             THEN sendError(stored, socket, "Event rejected due to conflict resolution")
        ELSE broadcastToRoom(stored, roomId,
                             EventMessage(eventPayload(candidateEvent, processed.event)),
                             eventExcludeSocket(socket))

handleWhiteboardEvent(w, socket, message, clock) ==
    LET roomId == getClientRoom(w.ms, socket)
        candidateEvent == [message EXCEPT !.roomId = roomId, !.timestamp = clock]
        event == [sanitizeEvent(candidateEvent) EXCEPT
                     !.roomId = candidateEvent.roomId,
                     !.timestamp = candidateEvent.timestamp]
        processed == processEvent(w.rs, roomId, event)
        stored == [w EXCEPT !.rs = processed.rs,
                            !.submitted = [called |-> TRUE, roomId |-> roomId,
                                           event |-> event]]
    IN  IF roomId = "" THEN sendError(w, socket, "Not in a room")
        ELSE IF ~ validateEvent(candidateEvent)
             THEN sendError(w, socket, "Invalid event")
        ELSE IF ~ processed.accepted
             THEN sendError(stored, socket, "Event rejected due to conflict resolution")
        ELSE broadcastToRoom(stored, roomId,
                             EventMessage(eventPayload(event, processed.event)),
                             eventExcludeSocket(socket))

handleLeaveRoom(w, socket, message) ==
    LET roomId == getClientRoom(w.ms, socket)
    IN  IF roomId # "" THEN [w EXCEPT !.ms = leaveRoom(w.ms, roomId, socket)] ELSE w

handleJoinRoom(w, socket, message) ==
    LET roomId == message.roomId
        joined == [w EXCEPT !.ms = joinRoom(w.ms, roomId, socket)]
        state == getState(joined.rs, roomId)
        connections == getRoomConnections(joined.ms, roomId)
    IN  IF roomId = "" THEN sendError(w, socket, "Room ID is required")
        ELSE sendMessage(joined, socket,
                         RoomJoinedMessage(roomId, Cardinality(connections), state))

handleMessage(w, socket, message, clock) ==
    IF message.type = "" THEN sendError(w, socket, "Message type is required")
    ELSE CASE message.type = "JOIN_ROOM" -> handleJoinRoom(w, socket, message)
           [] message.type = "LEAVE_ROOM" -> handleLeaveRoom(w, socket, message)
           [] message.type \in {"DRAW_LINE", "DRAW_PATH", "ERASE", "CLEAR_CANVAS"} ->
                handleWhiteboardEvent(w, socket, message, clock)
           [] OTHER -> sendError(w, socket, "Unknown message type")

\* the 'message' callback: data is [json, msg], json FALSE when JSON.parse throws
\* a handler that drops the session whose frame does not parse
onMessageDropsSession(w, socket, data, clock) ==
    IF ~ data.json
    THEN sendError([w EXCEPT !.ms = removeClient(w.ms, socket),
                             !.sessions = MapDelete(@, socket)],
                   socket, "Invalid message format")
    ELSE handleMessage(w, socket, data.msg, clock)

onMessage(w, socket, data, clock) ==
    IF ~ data.json THEN sendError(w, socket, "Invalid message format")
    ELSE handleMessage(w, socket, data.msg, clock)

\* the room of the last member to go is reset
handleDisconnectionResetsRoom(w, socket) ==
    LET roomId == getClientRoom(w.ms, socket)
        ms == removeClient(w.ms, socket)
    IN  [w EXCEPT !.ms = ms,
                  !.sessions = MapDelete(@, socket),
                  !.rs = IF roomId # "" /\ getRoomConnections(ms, roomId) = {}
                         THEN clearRoom(@, roomId) ELSE @]

\* a handler that forgets the session and leaves it in its room
handleDisconnectionKeepsMember(w, socket) ==
    [w EXCEPT !.sessions = MapDelete(@, socket)]

handleDisconnection(w, socket) ==
    [w EXCEPT !.ms = removeClient(w.ms, socket),
              !.sessions = MapDelete(@, socket)]

\* the socket is open when the server accepts it
handleConnection(w, socket, sessionId) ==
    sendMessage([w EXCEPT !.sessions = MapSet(@, socket, sessionId)], socket,
                ConnectedMessage(sessionId))

(***************************************************************************)
(* EventsHandler and RoomsHandler with their routers and the validation    *)
(* middleware in front of them.                                            *)
(***************************************************************************)
\* validateEventMiddleware: TRUE when the request goes on to the router
validateEventMiddleware(roomId, event) == roomId # "" /\ validateEvent(event)

\* the answer carries the event as it was submitted
handleEventSubmissionAnswersSubmitted(rs, roomId, event) ==
    IF ~ validateEvent(event)
    THEN [rs |-> rs, accepted |-> FALSE, event |-> event]
    ELSE [processEvent(rs, roomId, sanitizeEvent(event)) EXCEPT !.event = event]

handleEventSubmission(rs, roomId, event) ==
    IF ~ validateEvent(event)
    THEN [rs |-> rs, accepted |-> FALSE, event |-> event]
    ELSE processEvent(rs, roomId, sanitizeEvent(event))

\* POST /api/events behind validateEventMiddleware: the status and the event of
\* the response, and the instance the request leaves
postEvents(rs, roomId, event) ==
    IF ~ validateEventMiddleware(roomId, event)
    THEN [status |-> 400, event |-> NoEvent, rs |-> rs]
    ELSE LET result == handleEventSubmission(rs, roomId, event)
         IN  IF ~ result.accepted
             THEN [status |-> 400, event |-> NoEvent, rs |-> result.rs]
             ELSE [status |-> 200, event |-> result.event, rs |-> result.rs]

handleClearRoom(rs, roomId) == clearRoom(rs, roomId)

handleGetRooms(rs) == getActiveRooms(rs)

handleGetRoomState(rs, roomId) ==
    LET events == getState(rs, roomId)
    IN  [roomId |-> roomId, events |-> events, eventCount |-> Len(events),
         exists |-> roomExists(rs, roomId)]

\* afterSequence is Undefined when the request has no ?after
handleGetEvents(rs, roomId, afterSequence) ==
    IF afterSequence # Undefined THEN getEventsAfter(rs, roomId, afterSequence.n)
    ELSE getState(rs, roomId)

(***************************************************************************)
(* The client (squigglesync-frontend): the WhiteboardStore, the             *)
(* EventService that feeds it and the canvas the Whiteboard page renders.  *)
(* A store is the array of the _events signal.                             *)
(***************************************************************************)
\* WhiteboardStore.addEvent; an absent sequence is undefined on both sides of
\* ===, here 0 on both sides of =
storeAddEvent(events, event) ==
    IF \E k \in 1..Len(events) :
          \/ events[k].sequence = event.sequence
          \/ (events[k].timestamp = event.timestamp /\ events[k].userId = event.userId)
    THEN events
    ELSE Append(events, event)

\* WhiteboardStore.addEvents: the key is sequence-timestamp-userId, taken from
\* the events already stored
storeAddEvents(current, events) ==
    current \o SelectSeq(events, LAMBDA e :
        ~ \E k \in 1..Len(current) :
              /\ current[k].sequence = e.sequence
              /\ current[k].timestamp = e.timestamp
              /\ current[k].userId = e.userId)

storeClearEvents(events) == <<>>

\* Array.prototype.sort is stable: insertion sort by (sequence || 0)
RECURSIVE InsertBySequence(_, _)
InsertBySequence(sorted, event) ==
    IF sorted = <<>> THEN <<event>>
    ELSE IF sorted[Len(sorted)].sequence <= event.sequence THEN Append(sorted, event)
    ELSE Append(InsertBySequence(SubSeq(sorted, 1, Len(sorted) - 1), event),
                sorted[Len(sorted)])

RECURSIVE sortedEvents(_)
sortedEvents(events) ==
    IF events = <<>> THEN <<>>
    ELSE InsertBySequence(sortedEvents(SubSeq(events, 1, Len(events) - 1)),
                          events[Len(events)])

\* EventService.validateEvent
clientValidateEvent(event) ==
    /\ event.type # "" /\ event.userId # "" /\ event.roomId # "" /\ event.timestamp # 0
    /\ CASE event.type = "DRAW_LINE" ->
                /\ event.points.isArray /\ Len(event.points.items) > 0
                /\ event.color # <<>>
                /\ typeofNumber(event.strokeWidth)
           [] event.type = "DRAW_PATH" ->
                /\ event.path.isArray /\ Len(event.path.items) > 0
                /\ event.color # <<>>
                /\ typeofNumber(event.strokeWidth)
           [] event.type = "ERASE" ->
                /\ event.region.isObject
                /\ \A f \in {"x", "y", "width", "height"} : typeofNumber(event.region[f])
           [] event.type = "CLEAR_CANVAS" -> TRUE
           [] OTHER -> FALSE

handleRoomJoined(events, payload) == storeAddEvents(storeClearEvents(events), payload.state)

handleIncomingEvent(events, event) ==
    IF ~ clientValidateEvent(event) THEN events ELSE storeAddEvent(events, event)

\* EventService.processMessage
processMessage(events, message) ==
    IF message.type = "ROOM_JOINED" THEN handleRoomJoined(events, message)
    ELSE IF message.type = "EVENT" THEN handleIncomingEvent(events, message.event)
    ELSE events

\* the canvas: the colour of each point a stroke of the model passes through,
\* <<>> where nothing is drawn
Pixels == {<<0, 0>>, <<1, 1>>, <<2, 2>>, <<3, 3>>}
BlankCanvas == [px \in Pixels |-> <<>>]

StrokePixels(arr) ==
    {<<arr.items[k].items[1].n, arr.items[k].items[2].n>> : k \in 1..Len(arr.items)}

\* CanvasService.renderEvent
renderEvent(canvas, event) ==
    CASE event.type = "DRAW_LINE" ->
            [px \in Pixels |->
                IF px \in StrokePixels(event.points) THEN event.color ELSE canvas[px]]
      [] event.type = "DRAW_PATH" ->
            [px \in Pixels |->
                IF px \in StrokePixels(event.path) THEN event.color ELSE canvas[px]]
      [] event.type = "ERASE" ->
            [px \in Pixels |->
                IF /\ event.region.x.n <= px[1]
                   /\ px[1] < event.region.x.n + event.region.width.n
                   /\ event.region.y.n <= px[2]
                   /\ px[2] < event.region.y.n + event.region.height.n
                THEN <<>> ELSE canvas[px]]
      [] event.type = "CLEAR_CANVAS" -> BlankCanvas
      [] OTHER -> canvas

RECURSIVE renderFrom(_, _)
renderFrom(canvas, events) ==
    IF events = <<>> THEN canvas
    ELSE renderFrom(renderEvent(canvas, Head(events)), Tail(events))

\* CanvasService.renderAllEvents
renderAllEvents(events) == renderFrom(BlankCanvas, events)

(***************************************************************************)
(* ConnectionStore (core/store/connection.store.ts).  sessionId 0 and      *)
(* error "" stand for null.                                                *)
(***************************************************************************)
NewConnectionStore ==
    [isConnected |-> FALSE, connectionStatus |-> "disconnected", sessionId |-> 0,
     error |-> ""]

\* the status is set, the flag is left as it is
setErrorKeepsFlag(store, error) ==
    [store EXCEPT !.error = error, !.connectionStatus = "disconnected"]

setConnecting(store) ==
    [store EXCEPT !.connectionStatus = "connecting", !.isConnected = FALSE, !.error = ""]

setConnected(store, sessionId) ==
    [store EXCEPT !.connectionStatus = "connected", !.isConnected = TRUE,
                  !.sessionId = sessionId, !.error = ""]

setDisconnected(store) ==
    [store EXCEPT !.connectionStatus = "disconnected", !.isConnected = FALSE,
                  !.sessionId = 0]

setError(store, error) ==
    [store EXCEPT !.error = error, !.connectionStatus = "disconnected",
                  !.isConnected = FALSE]

\* WebSocketService.handleMessage, as far as the ConnectionStore goes
serviceHandleMessage(store, message) ==
    IF message.type = "CONNECTED" THEN setConnected(store, message.sessionId)
    ELSE IF message.type = "ERROR" THEN setError(store, message.text)
    ELSE store

(***************************************************************************)
(* WebSocketService (core/services/websocket.service.ts).  A service is    *)
(*   sockets   the browser sockets it has created, each by its readyState, *)
(*             socket k being the k-th one created                         *)
(*   webSocket the socket this.webSocket refers to, 0 for null             *)
(*   timers    the timeouts set and not yet fired or cleared, timer k      *)
(*             being the k-th one set                                      *)
(*   set       the number of timeouts set so far                           *)
(*   reconnectTimer  the timeout this.reconnectTimer refers to, 0 for null *)
(* and the fields of the class under their own names.                      *)
(***************************************************************************)
maxReconnectAttempts == 5
InitialReconnectDelay == 1000
MaxReconnectDelay == 30000

NewService ==
    [sockets |-> <<>>, webSocket |-> 0, timers |-> {}, set |-> 0,
     reconnectAttempts |-> 0, reconnectDelay |-> InitialReconnectDelay,
     reconnectTimer |-> 0, isManualDisconnect |-> FALSE,
     store |-> NewConnectionStore]

Min(a, b) == IF a <= b THEN a ELSE b

connect(svc) ==
    IF svc.webSocket # 0 /\ svc.sockets[svc.webSocket] = "OPEN"
    THEN svc
    ELSE [svc EXCEPT !.isManualDisconnect = FALSE,
                     !.store = setConnecting(@),
                     !.sockets = Append(@, "CONNECTING"),
                     !.webSocket = Len(svc.sockets) + 1]

\* clearTimeout and close() included; close() on a socket leaves it CLOSING
\* until its close event
disconnect(svc) ==
    [svc EXCEPT !.isManualDisconnect = TRUE,
                !.timers = IF svc.reconnectTimer # 0 THEN @ \ {svc.reconnectTimer} ELSE @,
                !.reconnectTimer = 0,
                !.sockets = IF svc.webSocket # 0
                            THEN [@ EXCEPT ![svc.webSocket] = "CLOSING"] ELSE @,
                !.webSocket = 0,
                !.store = setDisconnected(@)]

attemptReconnect(svc) ==
    IF svc.reconnectAttempts >= maxReconnectAttempts
    THEN [svc EXCEPT !.store = setError(@, "Failed to reconnect after multiple attempts")]
    ELSE [svc EXCEPT !.reconnectAttempts = @ + 1,
                     !.reconnectDelay = Min(@ * 2, MaxReconnectDelay),
                     !.set = @ + 1,
                     !.timers = @ \cup {svc.set + 1},
                     !.reconnectTimer = svc.set + 1]

\* the handlers connect() puts on the socket it creates
onopen(svc) ==
    [svc EXCEPT !.reconnectAttempts = 0, !.reconnectDelay = InitialReconnectDelay]

onerror(svc) == [svc EXCEPT !.store = setError(@, "WebSocket connection error")]

onclose(svc) ==
    LET closed == [svc EXCEPT !.store = setDisconnected(@), !.webSocket = 0]
    IN  IF ~ svc.isManualDisconnect THEN attemptReconnect(closed) ELSE closed

onmessage(svc, message) == [svc EXCEPT !.store = serviceHandleMessage(@, message)]

(***************************************************************************)
(* State.                                                                  *)
(***************************************************************************)
VARIABLES
    roomState,     \* instance -> [sequences, events, activeRooms]
    acceptedLog,   \* instance -> room -> the events the resolver accepted, as submitted
    membership,    \* [rooms, clientRooms] of the WebSocketRoomsService
    sessions,      \* socket -> session id
    readyState,    \* socket -> "NONE", "OPEN", "CLOSING", "ERRORED" or "CLOSED"
    outbox,        \* socket -> the frames the latest handler wrote to it
    stream,        \* socket -> the ROOM_JOINED and EVENT frames written to it since
                   \* its latest ROOM_JOINED, that frame first
    received,      \* socket -> room -> the sequence numbers of the EVENT frames
                   \* written to it while it is connected, in order
    now,           \* Date.now()
    probe,         \* the latest handler run on a server whose first room holds a
                   \* log of a chosen length: the input and what the handler did
    clientEvents,  \* socket -> the WhiteboardStore of the client behind it
    inbox,         \* socket -> the frames written to it that its client has not
                   \* handled yet
    connectionStore, \* socket -> the ConnectionStore of the client behind it
    service,       \* a WebSocketService with the sockets it has created, its timer
                   \* and its ConnectionStore
    page           \* the pointer state of a Whiteboard page and the events it emitted

vars == <<roomState, acceptedLog, membership, sessions, readyState, outbox, stream,
          received, now, probe, clientEvents, inbox, connectionStore,
                   service, page>>

\* no handler was run on a server with a chosen log
NoProbe ==
    [called |-> FALSE, entry |-> "", length |-> 0, input |-> Undefined, stored |-> 0,
     accepted |-> FALSE, outbox |-> [s \in Sockets |-> <<>>]]

\* the state a handler of the WebSocket server starts from
World ==
    [rs |-> roomState["ws"], ms |-> membership, sessions |-> sessions,
     readyState |-> readyState, outbox |-> [s \in Sockets |-> <<>>],
     submitted |-> NoSubmit]

\* the events an instance stores, all rooms together
Stored(rs) == Len(rs.events["r1"]) + Len(rs.events["r2"])

\* Whiteboard: the signals of the pointer handlers, and the event the page
\* created last
NewPage ==
    [isDrawing |-> FALSE, currentPoints |-> <<>>, selectedTool |-> "pen",
     emitted |-> NoEvent]

Init ==
    /\ roomState = [i \in Instances |-> NewRoomState]
    /\ acceptedLog = [i \in Instances |-> [r \in Rooms |-> <<>>]]
    /\ membership = NewMembership
    /\ sessions = <<>>
    /\ readyState = [s \in Sockets |-> "NONE"]
    /\ outbox = [s \in Sockets |-> <<>>]
    /\ stream = [s \in Sockets |-> <<>>]
    /\ received = [s \in Sockets |-> [r \in Rooms |-> <<>>]]
    /\ now = CLEAR_COOLDOWN_MS
    /\ probe = NoProbe
    /\ clientEvents = [s \in Sockets |-> <<>>]
    /\ inbox = [s \in Sockets |-> <<>>]
    /\ connectionStore = [s \in Sockets |-> NewConnectionStore]
    /\ service = NewService
    /\ page = NewPage

(***************************************************************************)
(* Inputs.                                                                 *)
(***************************************************************************)
Json(msg) == [json |-> TRUE, msg |-> msg]
NotJson == [json |-> FALSE, msg |-> NoEvent]

\* the client's roomId, timestamp and sequence of a whiteboard frame are its own
WsFrames ==
    {NotJson,
     Json(BaseEvent("", "u1", "r1", 0)),
     Json(BaseEvent("PING", "u1", "r1", 0)),
     Json(BaseEvent("JOIN_ROOM", "u1", "", 0)),
     Json(BaseEvent("JOIN_ROOM", "u1", "r1", 0)),
     Json(BaseEvent("JOIN_ROOM", "u1", "r2", 0)),
     Json(BaseEvent("LEAVE_ROOM", "u1", "r1", 0)),
     Json([DrawLine("u1", "r2", 5, Red) EXCEPT !.sequence = 7]),
     Json(DrawLine("u1", "", 0, ColorName)),
     Json(BaseEvent("CLEAR_CANVAS", "u2", "", 0)),
     Json(BaseEvent("CLEAR_CANVAS", "", "", 0))}

\* the frames of a session that draws: the first socket may change rooms, the
\* sockets after it stay with the first room
RoomFrames ==
    {Json(BaseEvent("JOIN_ROOM", "u1", "r1", 0)),
     Json(BaseEvent("JOIN_ROOM", "u1", "r2", 0)),
     Json(BaseEvent("LEAVE_ROOM", "u1", "r1", 0)),
     Json([DrawLine("u1", "r2", 5, Red) EXCEPT !.sequence = 7]),
     Json(BaseEvent("CLEAR_CANVAS", "u2", "", 0))}

PeerFrames ==
    {Json(BaseEvent("JOIN_ROOM", "u1", "r1", 0)),
     Json(BaseEvent("LEAVE_ROOM", "u1", "r1", 0)),
     Json([DrawLine("u1", "r2", 5, Red) EXCEPT !.sequence = 7]),
     Json(BaseEvent("CLEAR_CANVAS", "u2", "", 0))}

CoreSockets == {1}

\* the room the core inputs meet in
CoreRoom == "r1"

CoreFrames ==
    {Json(BaseEvent("JOIN_ROOM", "u1", "r1", 0)),
     Json([DrawLine("u1", "r2", 5, Red) EXCEPT !.sequence = 7]),
     Json(BaseEvent("CLEAR_CANVAS", "u2", "", 0))}

\* the timestamp of an event posted over HTTP is the client's
HttpTimestamps == {0, 500, 1000, 1500, 2000}

HttpEvents ==
    {DrawLine("u3", "r1", CLEAR_COOLDOWN_MS, Red),
     DrawLine("u3", "r1", CLEAR_COOLDOWN_MS, ColorName),
     DrawPath("u3", "r1", CLEAR_COOLDOWN_MS),
     Erase("u3", "r1", CLEAR_COOLDOWN_MS, 0),
     BaseEvent("JOIN_ROOM", "u3", "r1", CLEAR_COOLDOWN_MS),
     BaseEvent("PING", "u3", "r1", CLEAR_COOLDOWN_MS)}
    \cup {BaseEvent("CLEAR_CANVAS", "u3", "r1", t) : t \in HttpTimestamps}

CoreHttpEvents ==
    {DrawLine("u3", "r1", CLEAR_COOLDOWN_MS, Red),
     BaseEvent("JOIN_ROOM", "u3", "r1", CLEAR_COOLDOWN_MS),
     BaseEvent("CLEAR_CANVAS", "u3", "r1", CLEAR_COOLDOWN_MS)}

(***************************************************************************)
(* Actions.                                                                *)
(***************************************************************************)
\* the stream of a socket after the frames a handler wrote to it
RECURSIVE Extend(_, _)
Extend(frames, written) ==
    IF written = <<>> THEN frames
    ELSE LET f == Head(written)
         IN  Extend(IF f.type = "ROOM_JOINED" THEN <<f>>
                    ELSE IF f.type = "EVENT" THEN Append(frames, f)
                    ELSE frames,
                    Tail(written))

\* the sequence numbers of the EVENT frames of a room among the frames written
EventSequences(written, roomId) ==
    LET frames == SelectSeq(written, LAMBDA f : f.type = "EVENT" /\ f.event.roomId = roomId)
    IN  [k \in 1..Len(frames) |-> frames[k].event.sequence]

\* what a handler run does to the WebSocket server's state; a socket that leaves
\* its room or disconnects starts its stream anew, and the sockets torn down
\* receive no more
ApplyServer(w, gone) ==
    /\ roomState' = [roomState EXCEPT !["ws"] = w.rs]
    /\ acceptedLog' =
          IF w.submitted.called
             /\ resolveConflict(getEvents(roomState["ws"], w.submitted.roomId),
                                w.submitted.event).accepted
          THEN [acceptedLog EXCEPT !["ws"][w.submitted.roomId] =
                                        Append(@, w.submitted.event)]
          ELSE acceptedLog
    /\ membership' = w.ms
    /\ sessions' = w.sessions
    /\ outbox' = w.outbox
    /\ stream' =
          [s \in Sockets |->
              Extend(IF getClientRoom(membership, s) # "" /\ getClientRoom(w.ms, s) = ""
                     THEN <<>> ELSE stream[s],
                     w.outbox[s])]
    /\ received' =
          [s \in Sockets |-> [r \in Rooms |->
              IF s \in gone THEN <<>>
              ELSE received[s][r] \o EventSequences(w.outbox[s], r)]]
    /\ Stored(roomState'["ws"]) <= MaxWsEvents

\* a handler run of the server alone
Apply(w, gone) ==
    /\ ApplyServer(w, gone)
    /\ UNCHANGED <<probe, clientEvents, inbox, connectionStore,
                   service, page>>

\* a client connects; the sockets are numbered in the order they connect, and
\* the session id of socket s is s
Connect(s) ==
    /\ readyState[s] = "NONE"
    /\ \A t \in Sockets : t < s => readyState[t] # "NONE"
    /\ readyState' = [readyState EXCEPT ![s] = "OPEN"]
    /\ Apply(handleConnection([World EXCEPT !.readyState = readyState'], s, s), {})
    /\ UNCHANGED now

\* a frame arrives on a socket that still reads
Message(s, data) ==
    /\ readyState[s] \in {"OPEN", "CLOSING"}
    /\ Apply(onMessage(World, s, data, now), {})
    /\ UNCHANGED <<readyState, now>>

\* the closing handshake starts: the socket is no longer open
StartClose(s) ==
    /\ readyState[s] = "OPEN"
    /\ readyState' = [readyState EXCEPT ![s] = "CLOSING"]
    /\ Apply(World, {})
    /\ UNCHANGED now

\* the 'error' callback; the socket is torn down and reads no more
OnError(s) ==
    /\ readyState[s] \in {"OPEN", "CLOSING"}
    /\ readyState' = [readyState EXCEPT ![s] = "ERRORED"]
    /\ Apply(handleDisconnection(World, s), {s})
    /\ UNCHANGED now

\* the 'close' callback
OnClose(s) ==
    /\ readyState[s] \in {"OPEN", "CLOSING", "ERRORED"}
    /\ readyState' = [readyState EXCEPT ![s] = "CLOSED"]
    /\ Apply(handleDisconnection(World, s), {s})
    /\ UNCHANGED now

Tick ==
    /\ now < CLEAR_COOLDOWN_MS + MaxTicks * CLEAR_COOLDOWN_MS
    /\ now' = now + CLEAR_COOLDOWN_MS
    /\ Apply(World, {})
    /\ UNCHANGED readyState

\* the server clock between two frames that follow each other closely
ShortTick == 200

TickShort ==
    /\ now + ShortTick <= CLEAR_COOLDOWN_MS + MaxTicks * CLEAR_COOLDOWN_MS
    /\ now' = now + ShortTick
    /\ Apply(World, {})
    /\ UNCHANGED readyState

\* POST /api/events with body {roomId, event}
PostEvent(roomId, event) ==
    /\ validateEventMiddleware(roomId, event)
    /\ LET result == handleEventSubmission(roomState["events"], roomId, event)
       IN  /\ roomState' = [roomState EXCEPT !["events"] = result.rs]
           /\ acceptedLog' =
                 IF resolveConflict(getEvents(roomState["events"], roomId),
                                    sanitizeEvent(event)).accepted
                 THEN [acceptedLog EXCEPT !["events"][roomId] = Append(@, event)]
                 ELSE acceptedLog
    /\ Stored(roomState'["events"]) <= MaxHttpEvents
    /\ UNCHANGED <<membership, sessions, readyState, outbox, stream, received, now,
                   probe, clientEvents, inbox, connectionStore,
                   service, page>>

\* POST /api/events answered 400 by the validation middleware
PostEventRefused(roomId, event) ==
    /\ ~ validateEventMiddleware(roomId, event)
    /\ UNCHANGED vars

\* DELETE /api/rooms/:roomId
AfterDeleteRoom(roomId) == [roomState EXCEPT !["rooms"] = handleClearRoom(@, roomId)]

DeleteRoom(roomId) ==
    /\ roomState' = AfterDeleteRoom(roomId)
    /\ acceptedLog' = [acceptedLog EXCEPT !["rooms"][roomId] = <<>>]
    /\ UNCHANGED <<membership, sessions, readyState, outbox, stream, received, now,
                   probe, clientEvents, inbox, connectionStore,
                   service, page>>

(***************************************************************************)
(* The whole server, with one socket and the core inputs, in one room.     *)
(***************************************************************************)
Next ==
    \/ \E s \in CoreSockets : Connect(s)
    \/ \E s \in CoreSockets : \E data \in CoreFrames : Message(s, data)
    \/ \E s \in CoreSockets : OnClose(s)
    \/ Tick
    \/ \E event \in CoreHttpEvents : PostEvent(CoreRoom, event)
    \/ \E roomId \in Rooms : DeleteRoom(roomId)

Spec == Init /\ [][Next]_vars

(***************************************************************************)
(* The WebSocket server with several sessions that join, draw and leave.   *)
(* The first session may change rooms and closes at once; the sessions     *)
(* after it stay with the first room and also close by handshake or fail.  *)
(***************************************************************************)
NextWs ==
    \/ \E s \in Sockets : Connect(s)
    \/ \E data \in RoomFrames : Message(1, data)
    \/ \E s \in Sockets \ {1} : \E data \in PeerFrames : Message(s, data)
    \/ \E s \in Sockets \ {1} : StartClose(s)
    \/ \E s \in Sockets \ {1} : OnError(s)
    \/ \E s \in Sockets : OnClose(s)
    \/ Tick

SpecWs == Init /\ [][NextWs]_vars

(***************************************************************************)
(* The WebSocket server with one session that sends every kind of frame,   *)
(* and sessions after it that only join the first room and listen.         *)
(***************************************************************************)
ListenerFrames == {Json(BaseEvent("JOIN_ROOM", "u1", "r1", 0))}

NextFrames ==
    \/ \E s \in Sockets : Connect(s)
    \/ \E s \in CoreSockets : \E data \in WsFrames : Message(s, data)
    \/ \E s \in Sockets \ CoreSockets : \E data \in ListenerFrames : Message(s, data)
    \/ \E s \in Sockets \ CoreSockets : OnClose(s)
    \/ \E s \in CoreSockets : StartClose(s)
    \/ \E s \in CoreSockets : OnError(s)
    \/ \E s \in CoreSockets : OnClose(s)
    \/ Tick

SpecFrames == Init /\ [][NextFrames]_vars

(***************************************************************************)
(* The WebSocket server with one session that draws and clears while the   *)
(* clock advances in short steps, and sessions that listen.                *)
(***************************************************************************)
NextClock ==
    \/ \E s \in Sockets : Connect(s)
    \/ \E s \in CoreSockets : \E data \in CoreFrames : Message(s, data)
    \/ \E s \in Sockets \ CoreSockets : \E data \in ListenerFrames : Message(s, data)
    \/ \E s \in Sockets : OnClose(s)
    \/ TickShort

SpecClock == Init /\ [][NextClock]_vars

(***************************************************************************)
(* The handlers run on a server whose first room holds a log of a chosen   *)
(* length, up to the cap.  A log of n drawings is what n accepted          *)
(* DRAW_LINE submissions leave; the variables of the running server are    *)
(* left alone and the outcome of the one run is kept in probe.             *)
(***************************************************************************)
CapLengths ==
    {0, 1, 2, MAX_EVENTS_PER_ROOM - 2, MAX_EVENTS_PER_ROOM - 1, MAX_EVENTS_PER_ROOM}

LogOfLength(n) ==
    [k \in 1..n |-> [DrawLine("u1", "r1", CLEAR_COOLDOWN_MS, Red) EXCEPT !.sequence = k]]

RoomStateOfLength(n) ==
    [sequences |-> [r \in Rooms |-> IF r = "r1" THEN n ELSE 0],
     events |-> [r \in Rooms |-> IF r = "r1" THEN LogOfLength(n) ELSE <<>>],
     activeRooms |-> IF n = 0 THEN {} ELSE {"r1"}]

\* both sockets are connected and in the first room
WorldOfLength(n) ==
    [rs |-> RoomStateOfLength(n),
     ms |-> joinRoom(joinRoom(NewMembership, "r1", 1), "r1", 2),
     sessions |-> MapSet(MapSet(<<>>, 1, 1), 2, 2),
     readyState |-> [s \in Sockets |-> "OPEN"],
     outbox |-> [s \in Sockets |-> <<>>],
     submitted |-> NoSubmit]

\* the frames handleMessage hands to handleWhiteboardEvent
DrawingFrames ==
    {data \in WsFrames :
        data.json /\ data.msg.type \notin {"", "PING", "JOIN_ROOM", "LEAVE_ROOM"}}

LogLengths(rs) == [r \in Rooms |-> Len(getEvents(rs, r))]

\* a member of the first room submits over its socket
SubmitOnLog(n, s, data) ==
    /\ ~ probe.called
    /\ LET w == onMessage(WorldOfLength(n), s, data, now)
       IN  probe' = [called |-> TRUE, entry |-> "ws", length |-> n,
                     input |-> [socket |-> s, data |-> data],
                     stored |-> LogLengths(w.rs),
                     accepted |-> LogLengths(w.rs) # LogLengths(WorldOfLength(n).rs),
                     outbox |-> w.outbox]
    /\ UNCHANGED <<roomState, acceptedLog, membership, sessions, readyState, outbox,
                   stream, received, now, clientEvents, inbox, connectionStore,
                   service, page>>

\* POST /api/events
PostOnLog(n, roomId, event) ==
    /\ ~ probe.called
    /\ validateEventMiddleware(roomId, event)
    /\ LET result == handleEventSubmission(RoomStateOfLength(n), roomId, event)
       IN  probe' = [called |-> TRUE, entry |-> "http", length |-> n,
                     input |-> [roomId |-> roomId, event |-> event],
                     stored |-> LogLengths(result.rs), accepted |-> result.accepted,
                     outbox |-> [s \in Sockets |-> <<>>]]
    /\ UNCHANGED <<roomState, acceptedLog, membership, sessions, readyState, outbox,
                   stream, received, now, clientEvents, inbox, connectionStore,
                   service, page>>

NextCap ==
    \/ \E n \in CapLengths : \E s \in Sockets : \E data \in DrawingFrames :
          SubmitOnLog(n, s, data)
    \/ \E n \in CapLengths : \E roomId \in Rooms : \E event \in HttpEvents :
          PostOnLog(n, roomId, event)

SpecCap == Init /\ [][NextCap]_vars

(***************************************************************************)
(* The validator applied once to a drawing with a valid header; the input  *)
(* and the verdict are kept in probe.                                      *)
(***************************************************************************)
PointsInputs ==
    {Arr(<<Point(0, 0), Point(1, 1)>>),
     NoArray,
     Arr(<<Point(0, 0)>>),
     Arr(<<Point(0, 0), Arr(<<Num(1), NaN>>)>>),
     Arr(<<Point(0, 0), Arr(<<Num(1), Infinity>>)>>),
     Arr(<<Point(0, 0), Arr(<<Num(1), Undefined>>)>>),
     Arr(<<Point(0, 0), Arr(<<Num(1), Num(1), Num(1)>>)>>)}

ColorInputs ==
    {Red, ColorName, <<>>,
     <<"#", "a", "b", "c", "d", "e", "f">>,
     <<"#", "G", "G", "0", "0", "0", "0">>,
     <<"#", "F", "F", "0", "0", "0">>,
     <<"F", "F", "0", "0", "0", "0", "0">>}

StrokeWidthInputs ==
    {Num(2), Num(1), Num(100), Num(101), Num(0), Num(-1), NaN, Infinity, Undefined}

ValidatorInputs ==
    {[DrawLine("u1", "r1", CLEAR_COOLDOWN_MS, c) EXCEPT
         !.points = p, !.strokeWidth = w] :
        p \in PointsInputs, c \in ColorInputs, w \in StrokeWidthInputs}
    \cup {[DrawPath("u1", "r1", CLEAR_COOLDOWN_MS) EXCEPT
              !.path = p, !.color = c, !.strokeWidth = w] :
             p \in PointsInputs, c \in ColorInputs, w \in StrokeWidthInputs}

ValidateEvent(event) ==
    /\ ~ probe.called
    /\ probe' = [NoProbe EXCEPT !.called = TRUE, !.entry = "validateEvent",
                                !.input = event, !.accepted = validateEvent(event)]
    /\ UNCHANGED <<roomState, acceptedLog, membership, sessions, readyState, outbox,
                   stream, received, now, clientEvents, inbox, connectionStore,
                   service, page>>

NextValidator == \E event \in ValidatorInputs : ValidateEvent(event)

SpecValidator == Init /\ [][NextValidator]_vars

(***************************************************************************)
(* The HTTP entry points with every kind of event.                         *)
(***************************************************************************)
NextHttp ==
    \/ \E roomId \in Rooms \cup {""} : \E event \in HttpEvents : PostEvent(roomId, event)
    \/ \E roomId \in Rooms \cup {""} : \E event \in HttpEvents :
          PostEventRefused(roomId, event)
    \/ \E roomId \in Rooms : DeleteRoom(roomId)

SpecHttp == Init /\ [][NextHttp]_vars

(***************************************************************************)
(* The membership table driven through its public methods, with any        *)
(* arguments.                                                              *)
(***************************************************************************)
ApiSockets == {1, 2, 3}

JoinRoom(roomId, socket) ==
    /\ membership' = joinRoom(membership, roomId, socket)
    /\ UNCHANGED <<roomState, acceptedLog, sessions, readyState, outbox, stream, probe,
                   received, now, clientEvents, inbox, connectionStore,
                   service, page>>

LeaveRoom(roomId, socket) ==
    /\ membership' = leaveRoom(membership, roomId, socket)
    /\ UNCHANGED <<roomState, acceptedLog, sessions, readyState, outbox, stream, probe,
                   received, now, clientEvents, inbox, connectionStore,
                   service, page>>

RemoveClient(socket) ==
    /\ membership' = removeClient(membership, socket)
    /\ UNCHANGED <<roomState, acceptedLog, sessions, readyState, outbox, stream, probe,
                   received, now, clientEvents, inbox, connectionStore,
                   service, page>>

NextMembership ==
    \/ \E roomId \in Rooms : \E socket \in ApiSockets : JoinRoom(roomId, socket)
    \/ \E roomId \in Rooms : \E socket \in ApiSockets : LeaveRoom(roomId, socket)
    \/ \E socket \in ApiSockets : RemoveClient(socket)

SpecMembership == Init /\ [][NextMembership]_vars

(***************************************************************************)
(* Clients on the sockets: each draws on its whiteboard page and handles   *)
(* the frames the server writes to it, one at a time and in order.         *)
(***************************************************************************)
\* UserStore.userId of the client behind a socket
ClientUser(s) == IF s = 1 THEN "u1" ELSE "u2"

\* the room the clients of the model meet in
ClientRoom == "r1"

\* the colour picked on the page of a client
ClientColor(s) == IF s = 1 THEN Blue ELSE Red

\* Date.now() on the client when the server's clock reads clock: the two
\* clocks agree, or the client's is behind by a short tick
ClientClock(clock) == {clock - ShortTick, clock}

\* EventService.createDrawLineEvent
createDrawLineEvent(s, color, timestamp) ==
    DrawLine(ClientUser(s), ClientRoom, timestamp, color)

\* EventService.createClearCanvasEvent
createClearCanvasEvent(s, timestamp) ==
    BaseEvent("CLEAR_CANVAS", ClientUser(s), ClientRoom, timestamp)

\* the client has handled the ROOM_JOINED of the room it is in
ClientInRoom(s) ==
    /\ readyState[s] = "OPEN"
    /\ getClientRoom(membership, s) = ClientRoom
    /\ \A k \in 1..Len(inbox[s]) : inbox[s][k].type # "ROOM_JOINED"

\* what the server writes to a socket waits in the inbox of its client
Deliver(w) ==
    /\ inbox' = [t \in Sockets |-> inbox[t] \o w.outbox[t]]
    /\ \A t \in Sockets : Len(inbox'[t]) <= MaxInbox

\* WebSocketService.connect on a page that has no socket yet; the server
\* accepts the socket and greets it
ClientConnect(s) ==
    /\ readyState[s] = "NONE"
    /\ \A t \in Sockets : t < s => readyState[t] # "NONE"
    /\ readyState' = [readyState EXCEPT ![s] = "OPEN"]
    /\ connectionStore' = [connectionStore EXCEPT ![s] = setConnecting(@)]
    /\ ApplyServer(handleConnection([World EXCEPT !.readyState = readyState'], s, s), {})
    /\ Deliver(handleConnection([World EXCEPT !.readyState = readyState'], s, s))
    /\ UNCHANGED <<now, probe, clientEvents, service, page>>

\* WebSocketService.send on an open socket: the server handles the frame
ClientSend(s, message) ==
    /\ ApplyServer(onMessage(World, s, Json(message), now), {})
    /\ Deliver(onMessage(World, s, Json(message), now))
    /\ UNCHANGED <<readyState, now, probe, connectionStore, service>>

\* the page's `if (connectionStore.isConnected()) wsService.send(event)`
ClientSubmit(s, event) ==
    IF connectionStore[s].isConnected
    THEN ClientSend(s, event)
    ELSE UNCHANGED <<roomState, acceptedLog, membership, sessions, readyState, outbox,
                     stream, received, now, probe, inbox, connectionStore, service>>

\* the page's effect that joins the room once the store says connected
ClientJoinRoom(s) ==
    /\ readyState[s] = "OPEN"
    /\ connectionStore[s].isConnected
    /\ inbox[s] = <<>>
    /\ ClientSend(s, BaseEvent("JOIN_ROOM", ClientUser(s), ClientRoom, 0))
    /\ UNCHANGED <<clientEvents, page>>

\* Whiteboard.handleDrawLine: the event goes to the store first, then to the
\* server
ClientDrawLine(s, color, timestamp) ==
    /\ ClientInRoom(s)
    /\ clientEvents' = [clientEvents EXCEPT
          ![s] = storeAddEvent(@, createDrawLineEvent(s, color, timestamp))]
    /\ ClientSubmit(s, createDrawLineEvent(s, color, timestamp))
    /\ UNCHANGED page

\* Whiteboard.handleClearCanvas: the store is emptied and given the event,
\* then the event goes to the server
ClientClearCanvas(s, timestamp) ==
    /\ ClientInRoom(s)
    /\ clientEvents' = [clientEvents EXCEPT
          ![s] = storeAddEvent(storeClearEvents(@), createClearCanvasEvent(s, timestamp))]
    /\ ClientSubmit(s, createClearCanvasEvent(s, timestamp))
    /\ UNCHANGED page

\* the 'message' callback of the client's socket: WebSocketService.handleMessage
\* and, through the subscriptions of the page, EventService.processMessage
ClientReceive(s) ==
    /\ inbox[s] # <<>>
    /\ connectionStore' = [connectionStore EXCEPT
          ![s] = serviceHandleMessage(@, Head(inbox[s]))]
    /\ clientEvents' = [clientEvents EXCEPT ![s] = processMessage(@, Head(inbox[s]))]
    /\ inbox' = [inbox EXCEPT ![s] = Tail(@)]
    /\ UNCHANGED <<roomState, acceptedLog, membership, sessions, readyState, outbox,
                   stream, received, now, probe, service, page>>

\* the server clock moves on between two drawings that follow each other closely
ClientTick ==
    /\ now < CLEAR_COOLDOWN_MS + MaxWsEvents * ShortTick
    /\ TickShort

NextClient ==
    \/ \E s \in Sockets : ClientConnect(s)
    \/ \E s \in Sockets : ClientJoinRoom(s)
    \/ \E s \in Sockets, timestamp \in ClientClock(now) :
          ClientDrawLine(s, ClientColor(s), timestamp)
    \/ \E s \in Sockets : ClientReceive(s)
    \/ ClientTick

SpecClient == Init /\ [][NextClient]_vars

(***************************************************************************)
(* Clients that join once, with clocks that agree with the server's; the   *)
(* first of them also clears the canvas.                                   *)
(***************************************************************************)
NextClear ==
    \/ \E s \in Sockets : ClientConnect(s)
    \/ \E s \in Sockets : getClientRoom(membership, s) = "" /\ ClientJoinRoom(s)
    \/ \E s \in Sockets : ClientDrawLine(s, ClientColor(s), now)
    \/ \E s \in CoreSockets : ClientClearCanvas(s, now)
    \/ \E s \in Sockets : ClientReceive(s)
    \/ ClientTick

SpecClear == Init /\ [][NextClear]_vars

(***************************************************************************)
(* The pointer handlers of the Whiteboard page of the first client (mouse  *)
(* and touch handlers are the same code).                                  *)
(***************************************************************************)
\* canvas coordinates of the pointer
PagePoints == {<<0, 0>>, <<6, 8>>, <<9, 3>>}
PageTools == {"pen", "eraser"}
EraserSize == 10

RECURSIVE MinOf(_, _)
MinOf(points, c) ==
    IF Len(points) = 1 THEN points[1][c]
    ELSE Min(points[1][c], MinOf(Tail(points), c))

RECURSIVE MaxOf(_, _)
MaxOf(points, c) ==
    IF Len(points) = 1 THEN points[1][c]
    ELSE LET rest == MaxOf(Tail(points), c)
         IN  IF points[1][c] >= rest THEN points[1][c] ELSE rest

\* canvas.util getBoundingRect of a stroke that has a point
getBoundingRect(points) ==
    [x |-> MinOf(points, 1), y |-> MinOf(points, 2),
     width |-> MaxOf(points, 1) - MinOf(points, 1),
     height |-> MaxOf(points, 2) - MinOf(points, 2)]

\* Whiteboard.handleDrawLine: the event it creates from the points of a stroke
drawLineOf(points, timestamp) ==
    [createDrawLineEvent(1, ClientColor(1), timestamp) EXCEPT
        !.points = Arr([k \in 1..Len(points) |-> Point(points[k][1], points[k][2])])]

\* Whiteboard.handleErase: the event it creates from the points of a stroke
eraseOf(points, timestamp) ==
    LET boundingRect == getBoundingRect(points)
        half == EraserSize \div 2
    IN  [BaseEvent("ERASE", ClientUser(1), ClientRoom, timestamp) EXCEPT
            !.region = Region(IF boundingRect.x - half > 0 THEN boundingRect.x - half ELSE 0,
                              IF boundingRect.y - half > 0 THEN boundingRect.y - half ELSE 0,
                              boundingRect.width + EraserSize,
                              boundingRect.height + EraserSize)]

PageStep(next) ==
    /\ page' = next
    /\ UNCHANGED <<roomState, acceptedLog, membership, sessions, readyState, outbox,
                   stream, received, now, probe, clientEvents, inbox, connectionStore,
                   service>>

SelectTool(tool) ==
    /\ ~ page.isDrawing
    /\ page.selectedTool # tool
    /\ PageStep([page EXCEPT !.selectedTool = tool])

\* onMouseDown, onTouchStart
MouseDown(point) ==
    /\ ~ page.isDrawing
    /\ PageStep([page EXCEPT !.isDrawing = TRUE, !.currentPoints = <<point>>])

\* onMouseMove, onTouchMove
MouseMove(point) ==
    /\ page.isDrawing
    /\ Len(page.currentPoints) < MaxPoints
    /\ PageStep([page EXCEPT !.currentPoints = Append(@, point)])

\* onMouseUp, onTouchEnd with handleDrawLine or handleErase: the event goes to
\* the store, and to the server when the store says connected
MouseUp ==
    /\ page.isDrawing
    /\ LET event == IF page.selectedTool = "pen"
                    THEN drawLineOf(page.currentPoints, now)
                    ELSE eraseOf(page.currentPoints, now)
       IN  /\ page' = [page EXCEPT !.isDrawing = FALSE, !.currentPoints = <<>>,
                                   !.emitted = event]
           /\ clientEvents' = [clientEvents EXCEPT ![1] = storeAddEvent(@, event)]
           /\ ClientSubmit(1, event)

NextPointer ==
    \/ \E tool \in PageTools : SelectTool(tool)
    \/ \E point \in PagePoints : MouseDown(point)
    \/ \E point \in PagePoints : MouseMove(point)
    \/ MouseUp

SpecPointer == Init /\ [][NextPointer]_vars

(***************************************************************************)
(* One WebSocketService, the calls of the application on it, the events of *)
(* its sockets and its timeouts.                                           *)
(***************************************************************************)
ServiceStep(svc) ==
    /\ service' = svc
    /\ Len(svc.sockets) <= MaxSockets
    /\ UNCHANGED <<roomState, acceptedLog, membership, sessions, readyState, outbox,
                   stream, received, now, probe, clientEvents, inbox, connectionStore,
                   page>>

\* the application calls connect()
ServiceConnect ==
    /\ Len(service.sockets) < MaxSockets
    /\ ServiceStep(connect(service))

\* the application calls disconnect()
ServiceDisconnect ==
    /\ service.store.connectionStatus \in {"connecting", "connected", "disconnected"}
    /\ ServiceStep(disconnect(service))

\* a timeout set by attemptReconnect fires
TimerFires(timer) ==
    /\ timer \in service.timers
    /\ ServiceStep(connect([service EXCEPT !.timers = @ \ {timer}]))

\* the open event of a socket
SocketOpens(k) ==
    /\ k \in 1..Len(service.sockets)
    /\ service.sockets[k] = "CONNECTING"
    /\ ServiceStep(onopen([service EXCEPT !.sockets[k] = "OPEN"]))

\* the CONNECTED frame the server greets an open socket with
SocketMessage(k) ==
    /\ k \in 1..Len(service.sockets)
    /\ service.sockets[k] = "OPEN"
    /\ service.store.sessionId # k
    /\ ServiceStep(onmessage(service, ConnectedMessage(k)))

\* the connection of a socket fails or breaks: its error event; the socket is
\* closed from then on and its close event follows ("ERRORED" is readyState
\* CLOSED with the close event still to come)
SocketFails(k) ==
    /\ k \in 1..Len(service.sockets)
    /\ service.sockets[k] \in {"CONNECTING", "OPEN"}
    /\ ServiceStep(onerror([service EXCEPT !.sockets[k] = "ERRORED"]))

\* the close event of a socket
SocketCloses(k) ==
    /\ k \in 1..Len(service.sockets)
    /\ service.sockets[k] # "CLOSED"
    /\ ServiceStep(onclose([service EXCEPT !.sockets[k] = "CLOSED"]))

NextService ==
    \/ ServiceConnect
    \/ ServiceDisconnect
    \/ \E timer \in 1..MaxSockets : TimerFires(timer)
    \/ \E k \in 1..MaxSockets : SocketOpens(k)
    \/ \E k \in 1..MaxSockets : SocketMessage(k)
    \/ \E k \in 1..MaxSockets : SocketFails(k)
    \/ \E k \in 1..MaxSockets : SocketCloses(k)

SpecService == Init /\ [][NextService]_vars

(***************************************************************************)
(* Properties.                                                             *)
(***************************************************************************)
Log(i, roomId) == getEvents(roomState[i], roomId)

IsPrefix(a, b) == Len(a) <= Len(b) /\ SubSeq(b, 1, Len(a)) = a

Unsequenced(events) == [k \in 1..Len(events) |-> [events[k] EXCEPT !.sequence = 0]]

ConflictError == ErrorMessage("Event rejected due to conflict resolution")

\* C1: in every instance and room the i-th event of the log has sequence i,
\* and the room's counter equals the length of the log, so that a rejected
\* submit has consumed no sequence number.
C1_SequenceIsPosition ==
    \A i \in Instances : \A r \in Rooms :
       /\ \A k \in 1..Len(Log(i, r)) : Log(i, r)[k].sequence = k
       /\ getCurrentSequence(roomState[i], r) = Len(Log(i, r))

\* a session's CLEAR_CANVAS has just been rejected in a room whose log holds
\* two events and whose counter is still 2
C1_Witness ==
    /\ outbox[1] = <<ConflictError>>
    /\ Len(Log("ws", "r1")) = 2
    /\ Log("ws", "r1")[2].type = "CLEAR_CANVAS"
    /\ getCurrentSequence(roomState["ws"], "r1") = 2

\* C2: the accepted events submitted to one room by WebSocket sessions and by
\* HTTP callers carry the sequence numbers 1..k, each exactly once.
C2_SequencesAcrossSubmitters ==
    \A r \in Rooms :
       LET k == Len(Log("ws", r)) + Len(Log("events", r))
       IN  \A n \in 1..k :
              Cardinality({p \in {"ws", "events"} \X (1..k) :
                              /\ p[2] <= Len(Log(p[1], r))
                              /\ Log(p[1], r)[p[2]].sequence = n}) = 1

\* C3: getState returns the submitted events the resolver did not reject,
\* each once, in the order they were accepted.
C3_StateIsAccepted ==
    \A i \in Instances : \A r \in Rooms :
       Unsequenced(getState(roomState[i], r)) = Unsequenced(acceptedLog[i][r])

\* a CLEAR_CANVAS has just been rejected and the state holds the one clear that
\* was accepted before it
C3_Witness ==
    /\ outbox[1] = <<ConflictError>>
    /\ Len(getState(roomState["ws"], "r1")) = 1
    /\ getState(roomState["ws"], "r1")[1].type = "CLEAR_CANVAS"
    /\ Len(getState(roomState["events"], "r1")) = 2

\* C4: a step leaves every stored event in its place, unless it is the
\* whole-log reset of the room.
C4_AppendOnly ==
    [][\A i \in Instances : \A r \in Rooms :
          \/ IsPrefix(Log(i, r), getEvents(roomState'[i], r))
          \/ /\ roomState'[i] = clearRoom(roomState[i], r)
             /\ getEvents(roomState'[i], r) = <<>>]_vars

\* a CLEAR_CANVAS is stored second, after the drawing it leaves in place
C4_Witness ==
    \E i \in Instances : \E r \in Rooms :
       /\ Len(Log(i, r)) = 2
       /\ Log(i, r)[1].type = "DRAW_LINE" /\ Log(i, r)[1].sequence = 1
       /\ Log(i, r)[2].type = "CLEAR_CANVAS" /\ Log(i, r)[2].sequence = 2

\* C5: every entry of every log is a DRAW_LINE, DRAW_PATH, ERASE or
\* CLEAR_CANVAS event.
C5_OnlyWhiteboardEventsStored ==
    \A i \in Instances : \A r \in Rooms : \A k \in 1..Len(Log(i, r)) :
       Log(i, r)[k].type \in {"DRAW_LINE", "DRAW_PATH", "ERASE", "CLEAR_CANVAS"}

\* C6: no CLEAR_CANVAS of a log is followed by a CLEAR_CANVAS whose timestamp
\* is later by less than the cooldown.
C6_ClearsApart ==
    \A i \in Instances : \A r \in Rooms : \A a, b \in 1..Len(Log(i, r)) :
       (a < b /\ Log(i, r)[a].type = "CLEAR_CANVAS" /\ Log(i, r)[b].type = "CLEAR_CANVAS")
       => ~ (/\ Log(i, r)[a].timestamp < Log(i, r)[b].timestamp
             /\ Log(i, r)[b].timestamp < Log(i, r)[a].timestamp + CLEAR_COOLDOWN_MS)

\* a log holds two clears exactly the cooldown apart, a drawing between them
C6_Witness ==
    \E r \in Rooms :
       /\ Len(Log("events", r)) = 3
       /\ Log("events", r)[1].type = "CLEAR_CANVAS"
       /\ Log("events", r)[2].type = "DRAW_LINE"
       /\ Log("events", r)[3].type = "CLEAR_CANVAS"
       /\ Log("events", r)[3].timestamp =
             Log("events", r)[1].timestamp + CLEAR_COOLDOWN_MS

C8_MapsCoupled ==
    \A s \in ApiSockets : \A r \in Rooms :
       s \in getRoomConnections(membership, r) <=> getClientRoom(membership, s) = r

\* C9: in the step that stores an event of a session, every open member of the
\* room is written the EVENT frame of the stored event.
C9_BroadcastToOpenMembers ==
    [][\A r \in Rooms :
          Len(getEvents(roomState'["ws"], r)) > Len(Log("ws", r))
          => \A s \in getRoomConnections(membership', r) :
                readyState'[s] = "OPEN"
                => outbox'[s] =
                      <<EventMessage(getEvents(roomState'["ws"], r)
                                        [Len(getEvents(roomState'["ws"], r))])>>]_vars

\* both sockets are open members of the room and hold the frame of its second
\* event
C9_Witness ==
    /\ getRoomConnections(membership, "r1") = {1, 2}
    /\ readyState[1] = "OPEN" /\ readyState[2] = "OPEN"
    /\ Len(Log("ws", "r1")) = 2
    /\ outbox[1] = <<EventMessage(Log("ws", "r1")[2])>>
    /\ outbox[2] = outbox[1]
    /\ outbox[1][1].event.sequence = 2

\* C10: the EVENT frames a socket receives for a room carry strictly
\* increasing sequence numbers, and each carries the event stored at that
\* position of the room's log.
C10_EventFramesInOrder ==
    \A s \in Sockets :
       /\ \A r \in Rooms : \A k, l \in 1..Len(received[s][r]) :
             k < l => received[s][r][k] < received[s][r][l]
       /\ \A k \in 1..Len(stream[s]) :
             stream[s][k].type = "EVENT"
             => LET e == stream[s][k].event
                IN  /\ e.sequence \in 1..Len(Log("ws", e.roomId))
                    /\ Log("ws", e.roomId)[e.sequence] = e

\* the second socket has received the frames of two events of the room
C10_Witness ==
    /\ received[2]["r1"] = <<1, 2>>
    /\ Len(stream[2]) = 3

\* the events of the EVENT frames of a stream, in the order they were written
StreamEvents(frames) ==
    LET sent == SelectSeq(frames, LAMBDA f : f.type = "EVENT")
    IN  [k \in 1..Len(sent) |-> sent[k].event]

\* C11: the frames a socket holds since its latest ROOM_JOINED start with that
\* ROOM_JOINED and carry events of its room only, and for an open member of a
\* room the snapshot of the ROOM_JOINED followed by the events of the EVENT
\* frames after it is the room's log.
C11_SnapshotThenEvents ==
    \A s \in Sockets :
       /\ stream[s] # <<>>
          => /\ stream[s][1].type = "ROOM_JOINED"
             /\ \A k \in 2..Len(stream[s]) :
                   /\ stream[s][k].type = "EVENT"
                   /\ stream[s][k].event.roomId = stream[s][1].roomId
       /\ (getClientRoom(membership, s) # "" /\ readyState[s] = "OPEN")
          => /\ stream[s] # <<>>
             /\ stream[s][1].roomId = getClientRoom(membership, s)
             /\ stream[s][1].state \o StreamEvents(stream[s])
                   = Log("ws", getClientRoom(membership, s))

\* the second socket joined a room that held one event and has since received
\* the frame of the second
C11_Witness ==
    /\ getClientRoom(membership, 2) = "r1" /\ readyState[2] = "OPEN"
    /\ Len(stream[2]) = 2
    /\ Len(stream[2][1].state) = 1
    /\ stream[2][2].type = "EVENT" /\ stream[2][2].event.sequence = 2

\* C12: a step that stores an event in a room leaves the log and the counter
\* of every other room as they were, numbers the event by the room's own log,
\* and writes no EVENT frame to a socket outside the room.
C12_RoomsIsolated ==
    [][\A i \in Instances : \A r \in Rooms :
          Len(getEvents(roomState'[i], r)) > Len(Log(i, r))
          => /\ \A o \in Rooms \ {r} :
                   /\ getEvents(roomState'[i], o) = Log(i, o)
                   /\ getCurrentSequence(roomState'[i], o)
                         = getCurrentSequence(roomState[i], o)
             /\ getEvents(roomState'[i], r)[Len(getEvents(roomState'[i], r))].sequence
                   = Len(Log(i, r)) + 1
             /\ i = "ws"
                => \A s \in Sockets \ getRoomConnections(membership', r) :
                      \A k \in 1..Len(outbox'[s]) : outbox'[s][k].type # "EVENT"]_vars

\* the two sockets are in different rooms, each room holds one event with
\* sequence 1, and the first socket alone was written the frame of its event
C12_Witness ==
    /\ getRoomConnections(membership, "r1") = {2}
    /\ getRoomConnections(membership, "r2") = {1}
    /\ readyState[1] = "OPEN" /\ readyState[2] = "OPEN"
    /\ Len(Log("ws", "r1")) = 1 /\ Log("ws", "r1")[1].sequence = 1
    /\ Len(Log("ws", "r2")) = 1 /\ Log("ws", "r2")[1].sequence = 1
    /\ outbox[1] = <<EventMessage(Log("ws", "r2")[1])>>
    /\ outbox[2] = <<>>
    /\ received[2]["r2"] = <<>>

Range(seq) == {seq[k] : k \in 1..Len(seq)}

\* the state of the ROOM_JOINED frame a session that joins the room now is sent
JoinSnapshot(roomId) ==
    handleJoinRoom([World EXCEPT !.readyState = [s \in Sockets |-> "OPEN"]], 1,
                   BaseEvent("JOIN_ROOM", "u1", roomId, 0)).outbox[1][1].state

\* C13: every event stored through POST /events is in the state a session
\* joining the room is sent and in the answer of GET /rooms/:roomId/state, and
\* every event stored from a WebSocket session is in the answer of
\* GET /events/:roomId.
C13_OneRegistry ==
    \A r \in Rooms :
       /\ \A k \in 1..Len(Log("events", r)) :
             /\ Log("events", r)[k] \in Range(JoinSnapshot(r))
             /\ Log("events", r)[k]
                   \in Range(handleGetRoomState(roomState["rooms"], r).events)
       /\ \A k \in 1..Len(Log("ws", r)) :
             Log("ws", r)[k]
                \in Range(handleGetEvents(roomState["events"], r, Undefined))

\* C14: the ROOM_JOINED frame a joining socket is written carries every
\* event accepted in the room so far, in order and numbered from 1, the length
\* of that state as stateEventCount and the number of members, the joiner
\* among them, as userCount.
C14_JoinedCarriesWholeLog ==
    \A s \in Sockets : \A k \in 1..Len(outbox[s]) :
       outbox[s][k].type = "ROOM_JOINED"
       => LET f == outbox[s][k]
          IN  /\ Unsequenced(f.state) = Unsequenced(acceptedLog["ws"][f.roomId])
              /\ \A n \in 1..Len(f.state) : f.state[n].sequence = n
              /\ f.stateEventCount = Len(f.state)
              /\ s \in getRoomConnections(membership, f.roomId)
              /\ f.userCount = Cardinality(getRoomConnections(membership, f.roomId))

\* the first socket is closed; the second, which never received an event of
\* the room, joins it alone and is sent the two events stored before
C14_Witness ==
    /\ readyState[1] = "CLOSED" /\ readyState[2] = "OPEN"
    /\ received[2]["r1"] = <<>>
    /\ Len(outbox[2]) = 1 /\ outbox[2][1].type = "ROOM_JOINED"
    /\ outbox[2][1].roomId = "r1"
    /\ outbox[2][1].userCount = 1
    /\ outbox[2][1].stateEventCount = 2
    /\ outbox[2][1].state[2].sequence = 2

WhiteboardTypes == {"DRAW_LINE", "DRAW_PATH", "ERASE", "CLEAR_CANVAS"}

\* the frame is a whiteboard frame of a socket
IsWhiteboardFrame(data) == data.json /\ data.msg.type \in WhiteboardTypes

\* no socket was written an EVENT frame by the step
NoEventWritten ==
    \A t \in Sockets : \A k \in 1..Len(outbox'[t]) : outbox'[t][k].type # "EVENT"

\* C15: a whiteboard frame of a socket in a room that the validator rejects
\* leaves every log and counter as it was, writes no EVENT frame to any
\* socket, and the socket, if open, is written ERROR "Invalid event".
C15_InvalidEventRefused ==
    [][\A s \in Sockets : \A data \in WsFrames :
          (/\ IsWhiteboardFrame(data)
           /\ getClientRoom(membership, s) # ""
           /\ ~ validateEvent([data.msg EXCEPT
                                  !.roomId = getClientRoom(membership, s),
                                  !.timestamp = now])
           /\ Message(s, data))
          => /\ roomState' = roomState
             /\ NoEventWritten
             /\ readyState[s] = "OPEN"
                => outbox'[s] = <<ErrorMessage("Invalid event")>>]_vars

\* the first socket, in a room with a stored event and an open listener, has
\* just been refused an event
C15_Witness ==
    /\ getRoomConnections(membership, "r1") = {1, 2}
    /\ readyState[1] = "OPEN" /\ readyState[2] = "OPEN"
    /\ Len(Log("ws", "r1")) = 1
    /\ outbox[1] = <<ErrorMessage("Invalid event")>>
    /\ outbox[2] = <<>>

\* C16: a whiteboard frame of a socket that is in no room leaves every log,
\* counter and set of active rooms and the membership as they were, writes
\* nothing to any other socket, and the socket, if open, is written ERROR
\* "Not in a room" and nothing else.
C16_NotInRoomRefused ==
    [][\A s \in Sockets : \A data \in WsFrames :
          (/\ IsWhiteboardFrame(data)
           /\ getClientRoom(membership, s) = ""
           /\ Message(s, data))
          => /\ roomState' = roomState
             /\ membership' = membership
             /\ \A t \in Sockets \ {s} : outbox'[t] = <<>>
             /\ outbox'[s] = IF readyState[s] = "OPEN"
                             THEN <<ErrorMessage("Not in a room")>> ELSE <<>>]_vars

\* the first socket has left the room it drew in, where a listener remains,
\* and has just been refused an event
C16_Witness ==
    /\ getClientRoom(membership, 1) = "" /\ readyState[1] = "OPEN"
    /\ getRoomConnections(membership, "r1") = {2} /\ readyState[2] = "OPEN"
    /\ Len(Log("ws", "r1")) = 1
    /\ getActiveRooms(roomState["ws"]) = {"r1"}
    /\ outbox[1] = <<ErrorMessage("Not in a room")>>
    /\ outbox[2] = <<>>

\* C17: a valid whiteboard frame of a member that the resolver rejects leaves
\* every log and counter as it was, writes no EVENT frame to any socket, and
\* the socket, if open, is written ERROR "Event rejected due to conflict
\* resolution".
C17_ConflictRefused ==
    [][\A s \in Sockets : \A data \in WsFrames :
          (/\ IsWhiteboardFrame(data)
           /\ getClientRoom(membership, s) # ""
           /\ LET candidateEvent == [data.msg EXCEPT
                                        !.roomId = getClientRoom(membership, s),
                                        !.timestamp = now]
              IN  /\ validateEvent(candidateEvent)
                  /\ ~ resolveConflict(Log("ws", getClientRoom(membership, s)),
                                       candidateEvent).accepted
           /\ Message(s, data))
          => /\ \A r \in Rooms :
                   /\ getEvents(roomState'["ws"], r) = Log("ws", r)
                   /\ getCurrentSequence(roomState'["ws"], r)
                         = getCurrentSequence(roomState["ws"], r)
             /\ NoEventWritten
             /\ readyState[s] = "OPEN" => outbox'[s] = <<ConflictError>>]_vars

\* the room's one event is a clear accepted 200 ms ago; the second clear has
\* just been refused and the listener was written nothing
C17_Witness ==
    /\ getRoomConnections(membership, "r1") = {1, 2}
    /\ readyState[1] = "OPEN" /\ readyState[2] = "OPEN"
    /\ Len(Log("ws", "r1")) = 1
    /\ Log("ws", "r1")[1].type = "CLEAR_CANVAS"
    /\ now = Log("ws", "r1")[1].timestamp + ShortTick
    /\ outbox[1] = <<ConflictError>>
    /\ outbox[2] = <<>>

\* C18: no log holds more than MAX_EVENTS_PER_ROOM events, and a submission
\* into a log that holds MAX_EVENTS_PER_ROOM events is neither stored nor
\* broadcast.
C18_LogWithinCap ==
    probe.called =>
        /\ \A r \in Rooms : probe.stored[r] <= MAX_EVENTS_PER_ROOM
        /\ probe.length = MAX_EVENTS_PER_ROOM =>
              \A s \in Sockets : \A k \in 1..Len(probe.outbox[s]) :
                  probe.outbox[s][k].type # "EVENT"

\* C19: every event in the log of a room carries that room as its roomId.
C19_StoredRoomIdIsRoom ==
    \A i \in Instances : \A r \in Rooms : \A k \in 1..Len(Log(i, r)) :
        Log(i, r)[k].roomId = r

\* C20: once DELETE /api/rooms/:roomId is answered, the room has no event and
\* its sequence counter is 0 wherever its events are kept, and the other
\* rooms are as before.
C20_ResetEmptiesRoom ==
    \A roomId \in Rooms :
        LET after == AfterDeleteRoom(roomId)
        IN  \A i \in Instances :
                /\ getState(after[i], roomId) = <<>>
                /\ getCurrentSequence(after[i], roomId) = 0
                /\ \A other \in Rooms \ {roomId} :
                      /\ getEvents(after[i], other) = getEvents(roomState[i], other)
                      /\ getCurrentSequence(after[i], other) =
                            getCurrentSequence(roomState[i], other)

\* C21: a room that a session has joined exists in the registry of the
\* WebSocket server: roomExists is true and the room is in the active rooms.
C21_JoinedRoomExists ==
    \A s \in Sockets :
        getClientRoom(membership, s) # "" =>
            /\ roomExists(roomState["ws"], getClientRoom(membership, s))
            /\ getClientRoom(membership, s) \in getActiveRooms(roomState["ws"])

\* a frame that does not parse, or that parses to a message without a type
IsInvalidFrame(data) == ~ data.json \/ data.msg.type = ""

\* what a step that handles an invalid frame leaves alone: the session table,
\* the sockets' states, the membership and the logs
InvalidFrameKeepsState ==
    /\ sessions' = sessions
    /\ readyState' = readyState
    /\ membership' = membership
    /\ roomState' = roomState
    /\ NoEventWritten

AfterSequences == 0..(MaxHttpEvents + 1)

\* C25: in every instance and room, getEventsAfter(seq) holds only events with
\* a sequence above seq, the events of getState up to seq followed by
\* getEventsAfter(seq) are getState, getEventsAfter(0) is getState, and
\* GET /api/events/:roomId?after=seq answers getEventsAfter(seq).
C25_SincePartitionsSnapshot ==
    \A i \in Instances : \A r \in Rooms : \A seq \in AfterSequences :
        LET since == getEventsAfter(roomState[i], r, seq)
            snapshot == getState(roomState[i], r)
        IN  /\ \A k \in 1..Len(since) : since[k].sequence > seq
            /\ SelectSeq(snapshot, LAMBDA e : e.sequence <= seq) \o since = snapshot
            /\ getEventsAfter(roomState[i], r, 0) = snapshot
            /\ handleGetEvents(roomState[i], r, Num(seq)) = since
            /\ handleGetEvents(roomState[i], r, Undefined) = snapshot

\* the events router holds three events of a room, so that since(1) is a
\* proper, non-empty part of the snapshot
C25_Witness ==
    /\ Len(getState(roomState["events"], "r1")) = 3
    /\ Len(getEventsAfter(roomState["events"], "r1", 1)) = 2

(***************************************************************************)
(* The resolver as a function of the log and the candidate.  It is applied *)
(* to the logs of the running server and to every short list of events,    *)
(* in any order of timestamps.                                             *)
(***************************************************************************)
ResolverTimestamps == {500, 1000, 1500, 2000, 2500}

ResolverEvents ==
    {BaseEvent("CLEAR_CANVAS", "u1", "r1", t) : t \in ResolverTimestamps}
    \cup {DrawLine("u1", "r1", 1500, Red)}

ResolverLogs ==
    {<<>>} \cup {<<e>> : e \in ResolverEvents}
    \cup {<<e, f>> : e \in ResolverEvents, f \in ResolverEvents}

LogsResolved ==
    ResolverLogs \cup {Log(i, r) : i \in Instances, r \in Rooms}

ClearTimestamps(existingEvents) ==
    {existingEvents[k].timestamp : k \in
        {j \in 1..Len(existingEvents) : existingEvents[j].type = "CLEAR_CANVAS"}}

Largest(S) == CHOOSE m \in S : \A n \in S : n <= m

Distance(a, b) == IF a >= b THEN a - b ELSE b - a

C27_CooldownIsStrict ==
    \A existingEvents \in LogsResolved :
        ClearTimestamps(existingEvents) # {} =>
            LET last == Largest(ClearTimestamps(existingEvents))
            IN  /\ resolveConflict(existingEvents,
                      BaseEvent("CLEAR_CANVAS", "u2", "r1",
                                last + CLEAR_COOLDOWN_MS)).accepted
                /\ ~ resolveConflict(existingEvents,
                        BaseEvent("CLEAR_CANVAS", "u2", "r1",
                                  last + CLEAR_COOLDOWN_MS - 1)).accepted

\* the events router accepted a clear exactly one cooldown after the clear
\* before it
C27_Witness ==
    /\ Len(Log("events", "r1")) = 2
    /\ Log("events", "r1")[1].type = "CLEAR_CANVAS"
    /\ Log("events", "r1")[2].type = "CLEAR_CANVAS"
    /\ Log("events", "r1")[2].timestamp =
          Log("events", "r1")[1].timestamp + CLEAR_COOLDOWN_MS

\* drawings inside the cooldown of the clears of timestamp 1000, 1500 and 2000
DrawingCandidates ==
    {DrawLine("u2", "r1", 1500, Red), DrawPath("u2", "r1", 1500),
     Erase("u2", "r1", 1500, 5)}

\* C28: the resolver returns every DRAW_LINE, DRAW_PATH and ERASE candidate
\* whatever the log holds; and the step that handles a valid drawing frame of
\* a member of a room appends the event to the room's log with the next
\* sequence number and writes its EVENT frame to every open member.
C28_DrawingAlwaysAccepted ==
    [][/\ \A existingEvents \in LogsResolved : \A newEvent \in DrawingCandidates :
             /\ resolveConflict(existingEvents, newEvent).accepted
             /\ resolveConflict(existingEvents, newEvent).event = newEvent
       /\ \A s \in Sockets : \A data \in WsFrames :
             LET r == getClientRoom(membership, s)
                 candidateEvent == [data.msg EXCEPT !.roomId = r, !.timestamp = now]
                 stored == [candidateEvent EXCEPT !.sequence = Len(Log("ws", r)) + 1]
             IN  (/\ IsWhiteboardFrame(data)
                  /\ isDrawingEvent(data.msg)
                  /\ r # ""
                  /\ validateEvent(candidateEvent)
                  /\ Message(s, data))
                 => /\ getEvents(roomState'["ws"], r) = Append(Log("ws", r), stored)
                    /\ \A t \in getRoomConnections(membership, r) :
                          readyState[t] = "OPEN"
                          => outbox'[t] = <<EventMessage(stored)>>]_vars

\* a drawing was stored 200 ms after a clear, inside the cooldown, and both
\* members were written its EVENT frame
C28_Witness ==
    /\ getRoomConnections(membership, "r1") = {1, 2}
    /\ readyState[1] = "OPEN" /\ readyState[2] = "OPEN"
    /\ Len(Log("ws", "r1")) = 2
    /\ Log("ws", "r1")[1].type = "CLEAR_CANVAS"
    /\ Log("ws", "r1")[2].type = "DRAW_LINE"
    /\ Log("ws", "r1")[2].timestamp = Log("ws", "r1")[1].timestamp + ShortTick
    /\ outbox[1] = <<EventMessage(Log("ws", "r1")[2])>>
    /\ outbox[2] = <<EventMessage(Log("ws", "r1")[2])>>

\* a two-element array of finite numbers
IsFinitePoint(point) ==
    /\ point.isArray /\ Len(point.items) = 2
    /\ point.items[1].k = "number" /\ point.items[2].k = "number"

\* an array of at least 2 such points
IsStroke(arr) ==
    /\ arr.isArray /\ Len(arr.items) >= 2
    /\ \A k \in 1..Len(arr.items) : IsFinitePoint(arr.items[k])

\* ^#[0-9A-Fa-f]{6}$
IsHexColor(color) ==
    /\ Len(color) = 7 /\ color[1] = "#"
    /\ \A k \in 2..7 : color[k] \in HexDigits

\* a finite number in (0, 100]
IsStrokeWidth(w) == w.k = "number" /\ 0 < w.n /\ w.n <= 100

\* C29: validateEvent accepts a DRAW_LINE (DRAW_PATH) with a valid header
\* exactly if points (path) is an array of at least 2 two-element arrays of
\* finite numbers, the colour is # and six hex digits, and strokeWidth is a
\* finite number above 0 and at most 100.
C29_DrawingAcceptedIffWellFormed ==
    probe.entry = "validateEvent" =>
        (probe.accepted <=>
            /\ IsStroke(IF probe.input.type = "DRAW_LINE" THEN probe.input.points
                        ELSE probe.input.path)
            /\ IsHexColor(probe.input.color)
            /\ IsStrokeWidth(probe.input.strokeWidth))

\* C30: a socket whose close or error callback has run, or both, has no
\* session, is in no room and in no member set, and is written nothing; and
\* the userCount of every ROOM_JOINED is the number of members of the room,
\* none of which is such a socket.
C30_GoneSessionRemoved ==
    /\ \A s \in Sockets :
          readyState[s] \in {"ERRORED", "CLOSED"} =>
             /\ s \notin DOMAIN sessions
             /\ getClientRoom(membership, s) = ""
             /\ \A r \in Rooms : s \notin getRoomConnections(membership, r)
             /\ outbox[s] = <<>>
    /\ \A t \in Sockets : \A k \in 1..Len(outbox[t]) :
          outbox[t][k].type = "ROOM_JOINED" =>
             outbox[t][k].userCount =
                Cardinality(getRoomConnections(membership, outbox[t][k].roomId))

\* the first socket joined a room of two; the second socket has closed since,
\* and the event stored after that was written to the first socket alone
C30_Witness ==
    /\ readyState[2] = "CLOSED"
    /\ readyState[1] = "OPEN"
    /\ Len(stream[1]) = 2
    /\ stream[1][1].type = "ROOM_JOINED"
    /\ stream[1][1].roomId = "r1"
    /\ stream[1][1].userCount = 2
    /\ getRoomConnections(membership, "r1") = {1}
    /\ Len(Log("ws", "r1")) = 1
    /\ outbox[1] = <<EventMessage(Log("ws", "r1")[1])>>

\* the events the store of a client may be handed next: a drawing of its own
\* user, or the event of the frame at the head of its inbox
NextStoreEvents(s) ==
    {createDrawLineEvent(s, ClientColor(s), timestamp) : timestamp \in ClientClock(now)}
    \cup (IF inbox[s] # <<>> /\ Head(inbox[s]).type = "EVENT"
          THEN {Head(inbox[s]).event} ELSE {})

\* C24: the client store drops an incoming event exactly when, the event having
\* a sequence, a stored event has the same sequence, or, the event having none,
\* a stored event has the same userId and timestamp; any other event is kept
\* next to the events already stored.
C24_StoreDropsExactDuplicates ==
    \A s \in Sockets : \A event \in NextStoreEvents(s) :
       LET events == clientEvents[s]
           duplicate ==
              \E k \in 1..Len(events) :
                 IF event.sequence # 0 THEN events[k].sequence = event.sequence
                 ELSE /\ events[k].userId = event.userId
                      /\ events[k].timestamp = event.timestamp
       IN  storeAddEvent(events, event) =
              IF duplicate THEN events ELSE Append(events, event)

\* the state of the latest ROOM_JOINED frame of a socket, and the EVENT frames
\* written to it since
Snapshot(s) == stream[s][1].state
Broadcasts(s) == Tail(stream[s])

\* the pixels on the page of a client
Canvas(s) == renderAllEvents(sortedEvents(clientEvents[s]))

\* C23: two clients of a room that started from the same ROOM_JOINED snapshot
\* and have handled the same broadcasts since show the same pixels, where the
\* first applied its own events before their broadcasts came back and the
\* second applied broadcasts only.
C23_ClientsConverge ==
    \A a, b \in Sockets :
       (/\ a # b
        /\ ClientInRoom(a) /\ ClientInRoom(b)
        /\ inbox[a] = <<>> /\ inbox[b] = <<>>
        /\ Snapshot(a) = Snapshot(b)
        /\ Broadcasts(a) = Broadcasts(b)
        /\ \A k \in 1..Len(clientEvents[b]) : clientEvents[b][k].sequence # 0)
       => Canvas(a) = Canvas(b)

\* C31: the latest handler wrote nothing to a socket that is not open, and an
\* EVENT frame it wrote to one socket it wrote to every open member of the
\* event's room, whatever the state of the other members.
C31_NonOpenSocketSkipped ==
    /\ \A s \in Sockets : readyState[s] # "OPEN" => outbox[s] = <<>>
    /\ \A s, t \in Sockets : \A k \in 1..Len(outbox[s]) :
          (/\ outbox[s][k].type = "EVENT"
           /\ readyState[t] = "OPEN"
           /\ getClientRoom(membership, t) = outbox[s][k].event.roomId)
          => \E j \in 1..Len(outbox[t]) : outbox[t][j] = outbox[s][k]

\* the second socket is closing and still a member of the room in which the
\* first socket has just had an event broadcast
C31_Witness ==
    /\ readyState[2] = "CLOSING"
    /\ getClientRoom(membership, 2) = "r1"
    /\ getClientRoom(membership, 1) = "r1"
    /\ outbox[2] = <<>>
    /\ \E k \in 1..Len(outbox[1]) : outbox[1][k].type = "EVENT"

\* C34: POST /events answers 200 with the event as stored, carrying the room's
\* new sequence number, exactly when the event is valid, the roomId non-empty
\* and the resolver accepts; every other request is answered 400 and leaves
\* the room's log and its sequence counter as they were.
C34_PostAnswersStoredOr400 ==
    [][\A roomId \in Rooms \cup {""} : \A event \in HttpEvents :
          (PostEvent(roomId, event) \/ PostEventRefused(roomId, event)) =>
             LET rs == roomState["events"]
                 response == postEvents(rs, roomId, event)
                 log == roomState'["events"].events
                 accepts == /\ roomId # "" /\ validateEvent(event)
                            /\ resolveConflict(getEvents(rs, roomId),
                                               sanitizeEvent(event)).accepted
             IN  /\ response.status = IF accepts THEN 200 ELSE 400
                 /\ roomState'["events"] = response.rs
                 /\ accepts =>
                       /\ log[roomId] = Append(rs.events[roomId], response.event)
                       /\ response.event.sequence = getCurrentSequence(rs, roomId) + 1
                       /\ getCurrentSequence(response.rs, roomId) = response.event.sequence
                 /\ ~ accepts =>
                       /\ log = rs.events
                       /\ roomState'["events"].sequences = rs.sequences]_vars

\* a CLEAR_CANVAS posted to a room has been rejected by the resolver: the room
\* holds a clear and a later event and POST of a second clear answers 400
C34_Witness ==
    LET rs == roomState["events"]
    IN  /\ Len(rs.events["r1"]) = 2
        /\ rs.events["r1"][1].type = "CLEAR_CANVAS"
        /\ rs.events["r1"][2].sequence = 2
        /\ postEvents(rs, "r1", BaseEvent("CLEAR_CANVAS", "u3", "r1", 1500)).status = 400
        /\ postEvents(rs, "", DrawPath("u3", "r1", CLEAR_COOLDOWN_MS)).status = 400
        /\ postEvents(rs, "r1", DrawPath("u3", "r1", CLEAR_COOLDOWN_MS)).status = 200

\* the JOIN_ROOM frames of the model that name a room
JoinFrames == {data \in WsFrames : data.json /\ data.msg.type = "JOIN_ROOM" /\ data.msg.roomId # ""}

\* C39: a JOIN_ROOM frame from a session for the room it is already in leaves
\* the membership of every session and the logs as they were, the session
\* being a member of that room only, and an open session is answered
\* ROOM_JOINED with the number of members the room had before the frame.
C39_RejoinIsIdempotent ==
    [][\A s \in Sockets : \A data \in JoinFrames :
          (/\ getClientRoom(membership, s) = data.msg.roomId
           /\ Message(s, data))
          => LET roomId == data.msg.roomId
                 before == getRoomConnections(membership, roomId)
             IN  /\ membership' = membership
                 /\ \A r \in Rooms : (s \in getRoomConnections(membership', r)) <=> (r = roomId)
                 /\ roomState' = roomState
                 /\ readyState[s] = "OPEN" =>
                       outbox'[s] = <<RoomJoinedMessage(roomId, Cardinality(before),
                                                       getState(roomState["ws"], roomId))>>]_vars

\* the second session, which has received an event of the room and never
\* leaves a room, has just been answered ROOM_JOINED for that room of two
C39_Witness ==
    /\ readyState[2] = "OPEN"
    /\ received[2]["r1"] # <<>>
    /\ getRoomConnections(membership, "r1") = {1, 2}
    /\ Len(outbox[2]) = 1
    /\ outbox[2][1].type = "ROOM_JOINED"
    /\ outbox[2][1].roomId = "r1"
    /\ outbox[2][1].userCount = 2

\* C35: a client whose socket is open and which has handled the CONNECTED
\* frame has isConnected true, whatever frames it has handled since.
C35_ConnectedWhileOpen ==
    \A s \in Sockets :
       (readyState[s] = "OPEN" /\ connectionStore[s].sessionId # 0)
       => connectionStore[s].isConnected

\* the events of the room's log after its latest CLEAR_CANVAS, the ones a page
\* shows, that the store of a client lacks, by sequence
Missing(s) ==
    LET log == Log("ws", ClientRoom)
    IN  {k \in 1..Len(log) :
            /\ \A j \in k..Len(log) : log[j].type # "CLEAR_CANVAS"
            /\ \A j \in 1..Len(clientEvents[s]) :
                  clientEvents[s][j].sequence # log[k].sequence}

\* C36: a client in the room that has handled every frame written to it, the
\* last of them the server's rejection of its CLEAR_CANVAS, has in its store
\* every event the room's log holds after its latest accepted CLEAR_CANVAS.
C36_RejectedClearKeepsHistory ==
    \A s \in Sockets :
       (/\ ClientInRoom(s)
        /\ inbox[s] = <<>>
        /\ connectionStore[s].error = ConflictError.text)
       => Missing(s) = {}

\* the delay of the n-th consecutive attempt
BackoffDelay(n) == Min(InitialReconnectDelay * 2 ^ (n - 1), MaxReconnectDelay)

\* C32: the timeout of the n-th consecutive reconnect attempt is set for
\* 1000 * 2^(n-1) ms, at most 30000, there are never more than 5 consecutive
\* attempts, and with no attempt under way the delay is back at 1000.
C32_BackoffDelays ==
    /\ service.reconnectAttempts <= maxReconnectAttempts
    /\ service.reconnectAttempts = 0 => service.reconnectDelay = InitialReconnectDelay
    /\ service.reconnectAttempts >= 1 =>
          service.reconnectDelay = BackoffDelay(service.reconnectAttempts)

\* C33: from a disconnect() until the next connect() no timeout set by
\* attemptReconnect is pending, so that none can fire and reconnect.
C33_NoReconnectAfterDisconnect ==
    service.isManualDisconnect => service.timers = {}

\* the sockets of the service that are connecting or open
LiveSockets ==
    {k \in 1..Len(service.sockets) : service.sockets[k] \in {"CONNECTING", "OPEN"}}

\* C37: at most one socket of the service is connecting or open, and it is
\* the one the service refers to.
C37_OneLiveSocket ==
    /\ Cardinality(LiveSockets) <= 1
    /\ \A k \in LiveSockets : service.webSocket = k

\* C40: the ConnectionStore of the service has isConnected true exactly when
\* its connectionStatus is 'connected'.
C40_StatusFieldsAgree ==
    service.store.isConnected <=> service.store.connectionStatus = "connected"

\* the store says connected again after a reconnect, the error event of the
\* socket before having put it in error
C40_Witness ==
    /\ service.store.isConnected
    /\ service.set >= 1
    /\ \E k \in 1..Len(service.sockets) : service.sockets[k] = "CLOSED"
    /\ service.store.sessionId = Len(service.sockets)

\* C38: a DRAW_LINE event the page has created on release passes the server's
\* validateDrawLineEvent; in particular it carries at least 2 points.
C38_StrokeHasTwoPoints ==
    page.emitted.type = "DRAW_LINE" =>
       /\ Len(page.emitted.points.items) >= 2
       /\ validateDrawLineEvent(page.emitted)

====
